---- MODULE Spec2Model ----
(***************************************************************************)
(* Track playback engine of the Piper dual-arm terminal                    *)
(* (demo/V2/manage/terminal_v2.py, track.py).                              *)
(*                                                                         *)
(* One PiperTerminal with both arms connected.  The command thread runs    *)
(* cmd_play / cmd_play_v2 / cmd_play_parallel step by step; another thread *)
(* calls stop_play; an external writer changes the pause sentinel file.    *)
(* Every hardware call is appended to the log of the arm it was made on.   *)
(* Time passes only inside time.sleep(): run_time is time.time() minus     *)
(* started_at of the running dense playback, in milliseconds.              *)
(***************************************************************************)
EXTENDS Integers, Sequences, FiniteSets, TLC

\* ------------------------------------------------------------------ bounds
MaxCmds == 1
MaxPauseWrites == 2
MaxRunTime == 205

\* ------------------------------------------------------- program constants
TOLERANCE_ANGLE_UNITS == 5000
DELAY_BETWEEN_TRACKS == 3
PollSleepMs == 1
PauseSleepMs == 200
ControlHz == 50
MoveSmoothSteps == 100

IGNORED_JOINTS == {3, 5, 6}

Arms == {"left", "right"}

\* ------------------------------------------------------------------ names
\* A name is the sequence of its maximal runs of non-underscore characters
\* and of its single underscores: "left__a" is <<"left","_","_","a">>.
StartsWith(name, pre) ==
    /\ Len(name) >= Len(pre)
    /\ SubSeq(name, 1, Len(pre)) = pre

LeftPrefix == <<"left", "_", "_">>
RightPrefix == <<"right", "_", "_">>

\* ------------------------------------------------- IEEE-754 binary64 values
\* Python computes durations, interpolation steps and the gripper factor in
\* binary64 floats.  A float is [neg, m, e] with value (-1)^neg * m * 2^e,
\* where the magnitude m is a natural number of at most 53 significant bits
\* held as a little-endian sequence of limbs in base 2^14.
LimbBits == 2 * 7
LimbBase == 2^LimbBits
Precision == 52 + 1
DivShift == 5 * LimbBits

RECURSIVE BNorm(_)
BNorm(a) ==
    IF a = <<>> THEN <<>>
    ELSE IF a[Len(a)] = 0 THEN BNorm(SubSeq(a, 1, Len(a) - 1)) ELSE a

RECURSIVE BFromNat(_)
BFromNat(n) ==
    IF n = 0 THEN <<>> ELSE <<n % LimbBase>> \o BFromNat(n \div LimbBase)

RECURSIVE BToNat(_)
BToNat(a) ==
    IF a = <<>> THEN 0 ELSE a[1] + LimbBase * BToNat(Tail(a))

RECURSIVE BAddC(_, _, _)
BAddC(a, b, c) ==
    IF a = <<>> /\ b = <<>> THEN (IF c = 0 THEN <<>> ELSE <<c>>)
    ELSE LET x == IF a = <<>> THEN 0 ELSE a[1]
             y == IF b = <<>> THEN 0 ELSE b[1]
             s == x + y + c
         IN  <<s % LimbBase>> \o
             BAddC(IF a = <<>> THEN <<>> ELSE Tail(a),
                   IF b = <<>> THEN <<>> ELSE Tail(b), s \div LimbBase)

BAdd(a, b) == BAddC(a, b, 0)

\* a - b for a >= b
RECURSIVE BSubB(_, _, _)
BSubB(a, b, br) ==
    IF a = <<>> THEN <<>>
    ELSE LET y == IF b = <<>> THEN 0 ELSE b[1]
             d == a[1] - y - br
         IN  <<IF d < 0 THEN d + LimbBase ELSE d>> \o
             BSubB(Tail(a), IF b = <<>> THEN <<>> ELSE Tail(b),
                   IF d < 0 THEN 1 ELSE 0)

BSub(a, b) == BNorm(BSubB(a, b, 0))

\* a < b, for normalised a and b
RECURSIVE BLess(_, _)
BLess(a, b) ==
    IF Len(a) # Len(b) THEN Len(a) < Len(b)
    ELSE IF a = <<>> THEN FALSE
    ELSE IF a[Len(a)] # b[Len(b)] THEN a[Len(a)] < b[Len(b)]
    ELSE BLess(SubSeq(a, 1, Len(a) - 1), SubSeq(b, 1, Len(b) - 1))

\* a * k + c for a small natural k
RECURSIVE BMulSmall(_, _, _)
BMulSmall(a, k, c) ==
    IF a = <<>> THEN BFromNat(c)
    ELSE LET p == a[1] * k + c
         IN  <<p % LimbBase>> \o BMulSmall(Tail(a), k, p \div LimbBase)

RECURSIVE BMul(_, _)
BMul(a, b) ==
    IF b = <<>> THEN <<>>
    ELSE BNorm(BAdd(BMulSmall(a, b[1], 0), <<0>> \o BMul(a, Tail(b))))

Zeros(n) == [i \in 1..n |-> 0]

\* a * 2^k
BShl(a, k) ==
    IF a = <<>> THEN <<>>
    ELSE Zeros(k \div LimbBits) \o BMulSmall(a, 2^(k % LimbBits), 0)

\* quotient of a by a small natural d, dividing from the top limb down
RECURSIVE BDivRem(_, _)
BDivRem(a, d) ==
    IF a = <<>> THEN [q |-> <<>>, r |-> 0]
    ELSE LET hi == BDivRem(Tail(a), d)
             cur == hi.r * LimbBase + a[1]
         IN  [q |-> <<cur \div d>> \o hi.q, r |-> cur % d]

\* floor(a / 2^k)
BShr(a, k) ==
    IF k \div LimbBits >= Len(a) THEN <<>>
    ELSE BNorm(BDivRem(SubSeq(a, k \div LimbBits + 1, Len(a)),
                       2^(k % LimbBits)).q)

RECURSIVE NatBitLen(_)
NatBitLen(n) == IF n = 0 THEN 0 ELSE 1 + NatBitLen(n \div 2)

BBitLen(a) ==
    IF a = <<>> THEN 0 ELSE LimbBits * (Len(a) - 1) + NatBitLen(a[Len(a)])

BBit(a, i) ==
    IF i \div LimbBits >= Len(a) THEN 0
    ELSE (a[i \div LimbBits + 1] \div 2^(i % LimbBits)) % 2

\* a mod 2^k # 0
BLowNonzero(a, k) ==
    \/ \E j \in 1..Len(a) : j <= k \div LimbBits /\ a[j] # 0
    \/ /\ k \div LimbBits < Len(a)
       /\ a[k \div LimbBits + 1] % 2^(k % LimbBits) # 0

FZero == [neg |-> FALSE, m |-> <<>>, e |-> 0]

\* round to nearest, ties to even; sticky tells that the exact value lies
\* strictly above m * 2^e in magnitude
FRound(neg, m0, e, sticky) ==
    LET m == BNorm(m0)
        t == BBitLen(m) - Precision
    IN  IF m = <<>> THEN FZero
        ELSE IF t <= 0 THEN [neg |-> neg, m |-> m, e |-> e]
        ELSE LET q == BShr(m, t)
                 half == BBit(m, t - 1) = 1
                 rest == BLowNonzero(m, t - 1) \/ sticky
                 odd == BBit(q, 0) = 1
                 up == half /\ (rest \/ odd)
             IN  [neg |-> neg,
                  m |-> IF up THEN BAdd(q, <<1>>) ELSE q,
                  e |-> e + t]

FFromInt(n) ==
    [neg |-> n < 0, m |-> BFromNat(IF n < 0 THEN -n ELSE n), e |-> 0]

\* n / d correctly rounded, for an integer n and a small natural d > 0:
\* Python's int / int and the value of the decimal literal n/d
FDivInt(n, d) ==
    LET qr == BDivRem(BShl(BFromNat(IF n < 0 THEN -n ELSE n), DivShift), d)
    IN  FRound(n < 0, qr.q, -DivShift, qr.r # 0)

FMul(x, y) == FRound(x.neg # y.neg, BMul(x.m, y.m), x.e + y.e, FALSE)

FAdd(x, y) ==
    IF x.m = <<>> THEN y
    ELSE IF y.m = <<>> THEN x
    ELSE LET e == IF x.e < y.e THEN x.e ELSE y.e
             mx == BNorm(BShl(x.m, x.e - e))
             my == BNorm(BShl(y.m, y.e - e))
         IN  IF x.neg = y.neg THEN FRound(x.neg, BAdd(mx, my), e, FALSE)
             ELSE IF BLess(mx, my) THEN FRound(y.neg, BSub(my, mx), e, FALSE)
             ELSE FRound(x.neg, BSub(mx, my), e, FALSE)

FSub(x, y) == FAdd(x, [y EXCEPT !.neg = ~y.neg])

\* int(x): truncation toward zero
FTrunc(x) ==
    LET mag == IF x.e >= 0 THEN BToNat(BShl(x.m, x.e))
               ELSE BToNat(BShr(x.m, -x.e))
    IN  IF x.neg THEN -mag ELSE mag

\* ------------------------------------------------------------ pose algebra
Abs(x) == IF x < 0 THEN -x ELSE x

\* one step of the linear interpolations of _move_smooth and
\* _run_timed_track: int(c + ((t - c) / steps) * i), per component
Lerp(c, t, steps, i) ==
    FTrunc(FAdd(FFromInt(c), FMul(FDivInt(t - c, steps), FFromInt(i))))

LerpPose(from, to, steps, i) ==
    [j \in 1..7 |-> Lerp(from[j], to[j], steps, i)]

\* GRIPPER_TIGHT_COEFFICEINT = 0.075 as the float Python reads it
GripperTightCoefficient == FDivInt(75, 1000)

GripperFactor == FSub(FFromInt(1), GripperTightCoefficient)

\* _effective_target with the coefficient at 0: the pose goes out as recorded;
\* the fault C30 must exclude
EffectiveTargetUntightened(pt) == pt

\* _effective_target, lines 1296-1304: a copy of pt whose gripper is
\* int(pt[6] * (1 - GRIPPER_TIGHT_COEFFICEINT))
EffectiveTarget(pt) ==
    [pt EXCEPT ![7] = FTrunc(FMul(FFromInt(pt[7]), GripperFactor))]

\* (max_delta, worst_joint) over the joints outside IGNORED_JOINTS; joint
\* indices are 0-based as in the program, -1 when none was considered
RECURSIVE MaxDeltaScan(_, _, _, _, _)
MaxDeltaScan(a, b, idx, max_delta, worst) ==
    IF idx > 6 THEN <<max_delta, worst>>
    ELSE IF idx \in IGNORED_JOINTS
         THEN MaxDeltaScan(a, b, idx + 1, max_delta, worst)
    ELSE IF Abs(a[idx + 1] - b[idx + 1]) > max_delta
         THEN MaxDeltaScan(a, b, idx + 1, Abs(a[idx + 1] - b[idx + 1]), idx)
    ELSE MaxDeltaScan(a, b, idx + 1, max_delta, worst)

\* _max_delta_and_joint_strict, lines 444-450: every joint is considered;
\* as the scan of _is_close_ignored it is the fault C28 must exclude
MaxDeltaAndJointStrict(a, b) ==
    LET max_delta == CHOOSE d \in {Abs(a[j] - b[j]) : j \in 1..7} :
                         \A j \in 1..7 : Abs(a[j] - b[j]) <= d
        worst == CHOOSE j \in 1..7 :
                     /\ Abs(a[j] - b[j]) = max_delta
                     /\ \A k \in 1..(j - 1) : Abs(a[k] - b[k]) # max_delta
    IN  <<max_delta, worst - 1>>

MaxDeltaAndJointIgnored(a, b) == MaxDeltaScan(a, b, 0, -1, -1)

\* a comparison that looks at every joint: the fault C29 must exclude
IsCloseIgnoredAllJoints(a, b, tol) ==
    \A j \in 1..7 : Abs(a[j] - b[j]) <= tol

\* _is_close_ignored, lines 1149-1152; tol defaults to TOLERANCE_ANGLE_UNITS
IsCloseIgnored(a, b, tol) == MaxDeltaAndJointIgnored(a, b)[1] <= tol

IsCloseStrict(a, b) ==
    \A j \in 1..7 : Abs(a[j] - b[j]) <= TOLERANCE_ANGLE_UNITS

\* ---------------------------------------------------------- track storage
\* A stored document: version tag ("none" for a bare list, "absent" for a
\* mapping without the field), the entries of "points" (the poses of a bare
\* list are entries with "pt" only), and the entries of the .details.json
\* sidecar (<<>> when the sidecar is absent, unreadable or empty).  Timestamps are in
\* milliseconds; a duration and a speed-up are decimal literals n / d.
Dec(n, d) == [n |-> n, d |-> d]

DenseEntry(pt, ts) == [pt |-> pt, ts |-> ts]
TimedEntry(pt, n, d) == [pt |-> pt, duration |-> Dec(n, d)]
Telemetry(ts) == [ts |-> ts, telemetry |-> TRUE]

LA == <<"left", "_", "_", "a">>
RB == <<"right", "_", "_", "b">>
LE == <<"left", "_", "_", "e">>
LM == <<"left", "_", "_", "m">>
WAVE == <<"wave">>
LT == <<"left", "_", "_", "lopatka1">>
RT == <<"right", "_", "_", "meat">>
RD == <<"right", "_", "_", "open", "_", "door">>
LO == <<"left", "_", "_", "o">>
LZ == <<"left", "_", "_", "z">>

P1 == <<1000, 0, 0, 0, 0, 0, 40>>
P2 == <<2000, 500, 0, 0, 0, 0, 80>>
P3 == <<3000, 500, 0, 0, 0, 0, 0>>
FarPose == <<9000, 0, 0, 0, 0, 0, 40>>

Disk ==
    (LA :> [version |-> "v2.0",
            points |-> <<DenseEntry(P1, 7000), DenseEntry(P2, 7002),
                         DenseEntry(P3, 7004)>>,
            details |-> <<Telemetry(7000), Telemetry(7002), Telemetry(7004)>>])
    @@ (RB :> [version |-> "v2.0",
               points |-> <<DenseEntry(P1, 500), DenseEntry(P3, 503)>>,
               details |-> <<Telemetry(500), Telemetry(503)>>])
    @@ (LE :> [version |-> "v2.0", points |-> <<>>, details |-> <<>>])
    @@ (WAVE :> [version |-> "v2.0", points |-> <<DenseEntry(P1, 0)>>,
                 details |-> <<Telemetry(0)>>])
    @@ (LT :> [version |-> "v3.0",
               points |-> <<TimedEntry(P1, 0, 1), TimedEntry(P2, 5, 100),
                            TimedEntry(P3, 4, 100)>>,
               details |-> <<>>])
    @@ (RT :> [version |-> "v3.0",
               points |-> <<TimedEntry(P1, 0, 1), TimedEntry(P2, 8, 100)>>,
               details |-> <<>>])
    @@ (LO :> [version |-> "v3.0", points |-> <<TimedEntry(P2, 1, 1)>>,
               details |-> <<>>])
    @@ (LZ :> [version |-> "v3.0", points |-> <<>>, details |-> <<>>])

\* TrackV3Timed.__init__, lines 291-303, as read_track runs it: an entry
\* without "pt" or "duration" is rejected
TrackV3TimedInit(doc) ==
    IF \E i \in 1..Len(doc.points) :
           ~({"pt", "duration"} \subseteq DOMAIN doc.points[i])
    THEN [err |-> "ValueError", cls |-> "none"]
    ELSE [err |-> "ok", cls |-> "TrackV3Timed"]

\* read_track with the two version tests exchanged: the fault C13 must exclude
ReadDocSwapped(doc) ==
    IF doc.version = "v2.0" THEN TrackV3TimedInit(doc)
    ELSE IF doc.version = "v3.0" THEN [err |-> "ok", cls |-> "TrackV2"]
    ELSE [err |-> "ok", cls |-> "TrackV1"]

\* read_track falling back to TrackV2: the fault C14 must exclude
ReadDocLegacyAsV2(doc) ==
    IF doc.version = "v3.0" THEN TrackV3TimedInit(doc)
    ELSE [err |-> "ok", cls |-> "TrackV2"]

\* TrackBase.read_track on a stored document: the class chosen, or the error.
\* TrackV2.__init__ and TrackV1.__init__ accept whatever read_track hands
\* them.
ReadDoc(doc) ==
    IF doc.version = "v3.0" THEN TrackV3TimedInit(doc)
    ELSE IF doc.version = "v2.0" THEN [err |-> "ok", cls |-> "TrackV2"]
    ELSE [err |-> "ok", cls |-> "TrackV1"]

\* TrackBase.read_track: the class chosen for the document, or the error
ReadTrack(name) ==
    IF name \notin DOMAIN Disk THEN [err |-> "FileNotFoundError", cls |-> "none"]
    ELSE ReadDoc(Disk[name])

\* TrackV3Timed.speed_up: the per-name table, 0 for every other name
SpeedUpTable ==
    (<<"left", "_", "_", "open", "_", "door">> :> Dec(0, 1))
    @@ (LT :> Dec(15, 100))
    @@ (RD :> Dec(3, 10))
    @@ (RT :> Dec(2, 10))
    @@ (<<"right", "_", "_", "tomat">> :> Dec(47, 100))
    @@ (<<"right", "_", "_", "salt">> :> Dec(2, 10))
    @@ (<<"right", "_", "_", "lapsha">> :> Dec(3, 10))
    @@ (<<"right", "_", "_", "cheese">> :> Dec(15, 100))
    @@ (<<"right", "_", "_", "close", "_", "door">> :> Dec(1, 10))
    @@ (<<"left", "_", "_", "close", "_", "door">> :> Dec(25, 100))
    @@ (<<"left", "_", "_", "colba1">> :> Dec(3, 10))
    @@ (<<"left", "_", "_", "lopatka2", "_", "open">> :> Dec(6, 10))
    @@ (<<"left", "_", "_", "lopatka2", "_", "mix">> :> Dec(6, 10))
    @@ (<<"left", "_", "_", "lopatka2", "_", "close">> :> Dec(6, 10))
    @@ (<<"left", "_", "_", "lopatka2", "_", "open", "_", "faster">> :> Dec(6, 10))
    @@ (<<"left", "_", "_", "lopatka2", "_", "mix", "_", "faster">> :> Dec(6, 10))
    @@ (<<"left", "_", "_", "lopatka2", "_", "close", "_", "faster">> :> Dec(6, 10))
    @@ (<<"left", "_", "_", "colba", "_", "suhtrav">> :> Dec(0, 1))
    @@ (<<"left", "_", "_", "colba", "_", "svezhtrav">> :> Dec(0, 1))

SpeedUp(name) ==
    IF name \in DOMAIN SpeedUpTable THEN SpeedUpTable[name] ELSE Dec(0, 1)

\* TrackV3Timed.timestamps: running sum of the durations, in milliseconds
RECURSIVE DurationSumMs(_, _)
DurationSumMs(entries, k) ==
    IF k = 0 THEN 0
    ELSE DurationSumMs(entries, k - 1)
         + (entries[k].duration.n * 1000) \div entries[k].duration.d

\* track_points of the three classes on a stored document: the list of
\* TrackPoint, or the error.  TrackV1 holds the whole document in _data: the
\* list of poses, or for a mapping its keys.
DocTrackPoints(doc) ==
    LET n == Len(doc.points)
        \* TrackV2.details: the sidecar, else [{"ts": ts}] per point
        details == IF doc.details # <<>> THEN doc.details
                   ELSE [i \in 1..n |-> [ts |-> doc.points[i].ts,
                                         telemetry |-> FALSE]]
        keys == IF doc.version = "absent" THEN <<"points">>
                ELSE <<"version", "points">>
    IN  CASE ReadDoc(doc).cls = "TrackV3Timed" ->
               [err |-> "ok",
                pts |-> [i \in 1..n |->
                           [coordinates |-> doc.points[i].pt,
                            coordinates_timestamp |-> DurationSumMs(doc.points, i)]]]
          [] ReadDoc(doc).cls = "TrackV2" ->
               LET Fail(i) ==
                       IF ~({"pt", "ts"} \subseteq DOMAIN doc.points[i])
                       THEN "ValueError"
                       ELSE IF i > Len(details) THEN "ValueError"
                       ELSE IF ~details[i].telemetry THEN "KeyError"
                       ELSE "ok"
                   bad == {i \in 1..n : Fail(i) # "ok"}
                   first == CHOOSE i \in bad : \A j \in bad : i <= j
               IN  IF /\ doc.details = <<>>
                      /\ \E i \in 1..n : "ts" \notin DOMAIN doc.points[i]
                   THEN [err |-> "KeyError", pts |-> <<>>]
                   ELSE IF bad = {}
                   THEN [err |-> "ok",
                         pts |-> [i \in 1..n |->
                                    [coordinates |-> doc.points[i].pt,
                                     coordinates_timestamp |-> doc.points[i].ts]]]
                   ELSE [err |-> Fail(first), pts |-> <<>>]
          [] OTHER ->
               LET stored == IF doc.version = "none"
                             THEN [i \in 1..n |-> doc.points[i].pt] ELSE keys
               IN  IF Len(doc.details) # Len(stored)
                   THEN [err |-> "ValueError", pts |-> <<>>]
                   ELSE IF \E i \in 1..Len(stored) : ~doc.details[i].telemetry
                   THEN [err |-> "KeyError", pts |-> <<>>]
                   ELSE [err |-> "ok",
                         pts |-> [i \in 1..Len(stored) |->
                                    [coordinates |-> stored[i],
                                     coordinates_timestamp |-> doc.details[i].ts]]]

\* track_points of the three classes: the list of TrackPoint, or the error
TrackPoints(name) == DocTrackPoints(Disk[name])

\* PiperTerminal._load: read_track(name).track_points
Load(name) ==
    IF ReadTrack(name).err # "ok" THEN [err |-> ReadTrack(name).err, pts |-> <<>>]
    ELSE TrackPoints(name)

\* steps of a segment: max(1, int(float(duration * (1 - speed_up)) * hz))
SegmentSteps(duration, speed_up) ==
    LET dur == FMul(FDivInt(duration.n, duration.d),
                    FSub(FFromInt(1), FDivInt(speed_up.n, speed_up.d)))
        k == FTrunc(FMul(dur, FFromInt(ControlHz)))
    IN  IF k > 1 THEN k ELSE 1

\* _arm_from_name with the two branches exchanged: the fault C1 must exclude
ArmFromNameSwapped(name) ==
    IF StartsWith(name, LeftPrefix) THEN "right"
    ELSE IF StartsWith(name, RightPrefix) THEN "left"
    ELSE "ValueError"

\* _arm_from_name with both arms connected
ArmFromName(name) ==
    IF StartsWith(name, LeftPrefix) THEN "left"
    ELSE IF StartsWith(name, RightPrefix) THEN "right"
    ELSE "ValueError"

\* ------------------------------------------------------ hardware commands
EnableCmd == [k |-> "enable", v |-> <<7>>, at |-> 0]
ModeCmd(ctrl_mode, move_mode) == [k |-> "mode", v |-> <<ctrl_mode, move_mode>>, at |-> 0]
PoseCmd(eff_pt, t) == [k |-> "pose", v |-> eff_pt, at |-> t]
Engage == ModeCmd(1, 1)
Disengage == ModeCmd(0, 0)

\* _send_point: JointCtrl with the 6 joints, GripperCtrl with the tightened gripper
SendPoint(log, pt, t) == Append(log, PoseCmd(EffectiveTarget(pt), t))

\* _prepare_track_play
PrepareTrackPlay(log) == log \o <<EnableCmd, Engage>>

\* ------------------------------------------------------------------ state
VARIABLES
    pc,              \* where the command thread is
    op,              \* the command it runs: "play", "play_v2", "play_parallel"
    tracks,          \* the command's arguments
    ti,              \* index of the track being played
    arm,             \* the arm of the track being played
    data,            \* the loaded track: TrackPoints, or timed control points
    idx,             \* loop index of _run_track / segment target of _run_timed_track
    step,            \* interpolation step of the current segment
    steps,           \* number of steps of the current segment
    paused_by_file,  \* local of the playback loops
    delay_k,         \* iterations done of the delay between tracks
    play_stop,       \* _play_stop (threading.Event)
    play_thread,     \* _play_thread: "none" or the thread playing
    sp,              \* where the thread calling stop_play is
    pause_file,      \* content of pause.txt
    pwrites,         \* writes to pause.txt so far
    run_time,        \* time.time() - started_at of the dense playback, ms
    cmds,            \* per arm, the hardware commands issued so far
    arm_pose,        \* per arm, the joint/gripper feedback
    zero_tracks,     \* whether _list_zero_tracks() finds a file
    result,          \* how the last command ended
    checked,         \* arms the pre-flight check looked at in this command
    mark,            \* length of the arm's log when the playback loop began
    cycle_stop,      \* _play_stop as it was when the current control cycle began
    rec,             \* the recording in progress: mode, name, stage, stop flag
    ncmd             \* commands started so far

vars == <<pc, op, tracks, ti, arm, data, idx, step, steps, paused_by_file,
          delay_k, play_stop, play_thread, sp, pause_file, pwrites, run_time,
          cmds, arm_pose, zero_tracks, result, checked, mark, cycle_stop, rec,
          ncmd>>

loopVars == <<ti, arm, data, idx, step, steps, paused_by_file, delay_k, mark, cycle_stop>>
envVars == <<sp, pause_file, pwrites, arm_pose, zero_tracks, rec, ncmd>>

PlayArgs == {<<>>, <<LA>>, <<RB>>, <<WAVE>>, <<LM>>, <<LE>>, <<LO>>,
             <<LA, RB>>, <<LA, WAVE>>, <<LA, LE>>, <<LA, LM>>, <<LA, LA>>}
PlayV2Args == {<<>>, <<LT>>, <<RT>>, <<LO>>, <<LZ>>, <<LA>>, <<WAVE>>, <<LM>>,
               <<LT, RT>>, <<LT, LA>>, <<LT, LZ>>, <<RT, WAVE>>}
ParallelArgs == {<<LA, RB>>, <<RB, LA>>, <<LA, LA>>, <<LA, WAVE>>, <<LA, <<>>>>,
                 <<LE, RB>>, <<LM, RB>>}
RecordArgs == {LM, RB, WAVE}

ExternalPauseActive == pause_file = "1"

\* rec: the recording thread (mode "dense" or "safe", its track name, its
\* stage, _rec_stop), the discrete recording (hybrid, hname), the last answer
\* given to _confirm_overwrite, and the track files written so far
NoRecording ==
    [mode |-> "none", name |-> <<>>, stage |-> "none", stop |-> FALSE,
     hybrid |-> FALSE, hname |-> <<>>, answer |-> "none", written |-> {}]

Init ==
    /\ pc = "idle" /\ op = "none" /\ tracks = <<>>
    /\ ti = 0 /\ arm = "none" /\ data = <<>>
    /\ idx = 0 /\ step = 0 /\ steps = 0
    /\ paused_by_file = FALSE /\ delay_k = 0
    /\ play_stop = TRUE            \* _play_stop.set(): not playing initially
    /\ play_thread = "none"
    /\ sp = "idle"
    /\ pause_file \in {"0", "1"} /\ pwrites = 0
    /\ run_time = 0
    /\ cmds = [a \in Arms |-> <<>>]
    /\ arm_pose \in {[a \in Arms |-> P1], [a \in Arms |-> FarPose]}
    /\ zero_tracks \in BOOLEAN
    /\ result = "none" /\ checked = {} /\ mark = 0 /\ cycle_stop = FALSE
    /\ rec = NoRecording
    /\ ncmd = 0

\* the command ends by raising exc: the REPL logs it and reads the next line
Raise(exc) == pc' = "idle" /\ result' = exc

\* the command ends by a return that skips the epilogue of the command
ReturnEarly == pc' = "idle" /\ result' = "early"

\* the command logs that the name has no arm prefix, and returns
Reject == pc' = "idle" /\ result' = "name_error"

\* cmd_record while a recording thread is alive: logged, and returns
Busy == pc' = "idle" /\ result' = "busy"

\* ---------------------------------------------------------------- cmd_play
\* lines 816-823
CmdPlay(args) ==
    /\ pc = "idle" /\ ncmd < MaxCmds /\ ~rec.hybrid
    /\ ncmd' = ncmd + 1
    /\ op' = "play" /\ tracks' = args
    /\ checked' = {}
    /\ IF args = <<>>
       THEN /\ ReturnEarly
            /\ UNCHANGED <<play_stop, play_thread>>
       ELSE /\ play_stop' = FALSE
            /\ play_thread' = "player"
            /\ pc' = "play_safety"
            /\ result' = "running"
    /\ UNCHANGED <<loopVars, sp, pause_file, pwrites, arm_pose, zero_tracks,
                   rec, run_time, cmds>>

\* lines 830-836: _arm_from_name, then the pre-flight check, which fails
\* only when there is no zero track
PlaySafety ==
    /\ pc = "play_safety"
    /\ IF ArmFromName(tracks[1]) = "ValueError"
       THEN Raise("ValueError") /\ UNCHANGED checked
       ELSE IF ~zero_tracks
            THEN ReturnEarly /\ UNCHANGED checked
       ELSE /\ checked' = checked \cup {ArmFromName(tracks[1])}
            /\ pc' = "play_first"
            /\ UNCHANGED result
    /\ UNCHANGED <<op, tracks, loopVars, envVars, play_stop, play_thread,
                   run_time, cmds>>

\* lines 838-845: the start of the first track; the glide helper
\* _safe_move_smooth is defined nowhere, so calling it raises AttributeError
PlayFirst ==
    /\ pc = "play_first"
    /\ LET first == Load(tracks[1])
       IN  IF first.err # "ok" THEN Raise(first.err) /\ UNCHANGED ti
           ELSE IF first.pts = <<>> THEN Raise("IndexError") /\ UNCHANGED ti
           ELSE IF ~IsCloseIgnored(arm_pose[ArmFromName(tracks[1])],
                                   first.pts[1].coordinates, TOLERANCE_ANGLE_UNITS)
                THEN Raise("AttributeError") /\ UNCHANGED ti
           ELSE pc' = "play_loop" /\ ti' = 1 /\ UNCHANGED result
    /\ UNCHANGED <<op, tracks, arm, data, idx, step, steps, paused_by_file,
                   delay_k, mark, cycle_stop, envVars, play_stop, play_thread,
                   run_time, cmds, checked>>

\* a loop over the tracks that does not look at the stop flag: the fault
\* C34 must exclude
PlayLoopIgnoresStop ==
    /\ pc = "play_loop"
    /\ IF Load(tracks[ti]).err # "ok"
       THEN Raise(Load(tracks[ti]).err) /\ UNCHANGED <<data, arm>>
       ELSE IF ArmFromName(tracks[ti]) = "ValueError"
            THEN Raise("ValueError") /\ UNCHANGED <<data, arm>>
       ELSE /\ data' = Load(tracks[ti]).pts
            /\ arm' = ArmFromName(tracks[ti])
            /\ pc' = "rt_prepare"
            /\ UNCHANGED result
    /\ UNCHANGED <<op, tracks, ti, idx, step, steps, paused_by_file, delay_k,
                   mark, cycle_stop, envVars, play_stop, play_thread, run_time,
                   cmds, checked>>

\* lines 847-855: top of the loop over the tracks
PlayLoop ==
    /\ pc = "play_loop"
    /\ IF play_stop
       THEN pc' = "play_end" /\ UNCHANGED <<result, data, arm>>
       ELSE IF Load(tracks[ti]).err # "ok"
            THEN Raise(Load(tracks[ti]).err) /\ UNCHANGED <<data, arm>>
       ELSE IF ArmFromName(tracks[ti]) = "ValueError"
            THEN Raise("ValueError") /\ UNCHANGED <<data, arm>>
       ELSE /\ data' = Load(tracks[ti]).pts
            /\ arm' = ArmFromName(tracks[ti])
            /\ pc' = "rt_prepare"
            /\ UNCHANGED result
    /\ UNCHANGED <<op, tracks, ti, idx, step, steps, paused_by_file, delay_k,
                   mark, cycle_stop, envVars, play_stop, play_thread, run_time,
                   cmds, checked>>

\* ---------------------------------------------------------------- _run_track
\* lines 987-999: engage, started_at = time.time(), first_ts = data[0]...
RunTrackPrepare ==
    /\ pc = "rt_prepare"
    /\ cmds' = [cmds EXCEPT ![arm] = PrepareTrackPlay(@)]
    /\ mark' = Len(cmds'[arm])
    /\ run_time' = 0
    /\ IF data = <<>>
       THEN Raise("IndexError") /\ UNCHANGED <<idx, paused_by_file>>
       ELSE /\ idx' = 1 /\ paused_by_file' = FALSE
            /\ pc' = "rt_top" /\ UNCHANGED result
    /\ UNCHANGED <<op, tracks, ti, arm, data, step, steps, delay_k, cycle_stop,
                   envVars, play_stop, play_thread, checked>>

\* lines 1001-1004: next point, or leave the loop
RunTrackTop ==
    /\ pc = "rt_top"
    /\ cycle_stop' = play_stop
    /\ pc' = IF idx > Len(data) \/ play_stop THEN "rt_end" ELSE "rt_wait"
    /\ UNCHANGED <<op, tracks, ti, arm, data, idx, step, steps, paused_by_file,
                   delay_k, mark, envVars, play_stop, play_thread, run_time,
                   cmds, result, checked>>

\* the offset taken from the previous point instead of the first: the fault
\* C9 must exclude
TargetOffsetFromPrevious ==
    data[idx].coordinates_timestamp
    - data[IF idx > 1 THEN idx - 1 ELSE 1].coordinates_timestamp

\* line 1011: target_offset = tp.coordinates_timestamp - first_ts
TargetOffset == data[idx].coordinates_timestamp - data[1].coordinates_timestamp

\* lines 1010-1016: poll until the point is due or stop is requested
RunTrackWait ==
    /\ pc = "rt_wait"
    /\ IF run_time >= TargetOffset \/ play_stop
       THEN pc' = "rt_send" /\ UNCHANGED run_time
       ELSE /\ run_time + PollSleepMs <= MaxRunTime
            /\ run_time' = run_time + PollSleepMs
            /\ UNCHANGED pc
    /\ UNCHANGED <<op, tracks, loopVars, envVars, play_stop, play_thread, cmds,
                   result, checked>>

\* line 1018
RunTrackSend ==
    /\ pc = "rt_send"
    /\ cmds' = [cmds EXCEPT ![arm] = SendPoint(@, data[idx].coordinates, run_time)]
    /\ pc' = "rt_pause"
    /\ UNCHANGED <<op, tracks, loopVars, envVars, play_stop, play_thread,
                   run_time, result, checked>>

\* lines 1073-1080: first sight of the pause sentinel disengages the mode
RunTrackPause ==
    /\ pc = "rt_pause"
    /\ IF ExternalPauseActive
       THEN /\ cmds' = [cmds EXCEPT ![arm] =
                          IF paused_by_file THEN @ ELSE Append(@, Disengage)]
            /\ paused_by_file' = TRUE
            /\ pc' = "rt_pausewait"
       ELSE /\ pc' = "rt_resume"
            /\ UNCHANGED <<cmds, paused_by_file>>
    /\ UNCHANGED <<op, tracks, ti, arm, data, idx, step, steps, delay_k, mark,
                   cycle_stop, envVars, play_stop, play_thread, run_time,
                   result, checked>>

\* lines 1081-1082
RunTrackPauseWait ==
    /\ pc = "rt_pausewait"
    /\ IF ExternalPauseActive /\ ~play_stop
       THEN /\ run_time + PauseSleepMs <= MaxRunTime
            /\ run_time' = run_time + PauseSleepMs
            /\ UNCHANGED pc
       ELSE pc' = "rt_resume" /\ UNCHANGED run_time
    /\ UNCHANGED <<op, tracks, loopVars, envVars, play_stop, play_thread, cmds,
                   result, checked>>

\* lines 1083-1089, and the step of the for loop
RunTrackResume ==
    /\ pc = "rt_resume"
    /\ IF paused_by_file /\ ~ExternalPauseActive
       THEN /\ cmds' = [cmds EXCEPT ![arm] = Append(@, Engage)]
            /\ paused_by_file' = FALSE
       ELSE UNCHANGED <<cmds, paused_by_file>>
    /\ idx' = idx + 1
    /\ pc' = "rt_top"
    /\ UNCHANGED <<op, tracks, ti, arm, data, step, steps, delay_k, mark,
                   cycle_stop, envVars, play_stop, play_thread, run_time,
                   result, checked>>

\* a loop that returns without the final ModeCtrl: the fault C4 must exclude
LoopEpilogueNone(log) == log

\* what _run_track and _run_timed_track append when the loop is over
LoopEpilogue(log) == Append(log, Disengage)

\* line 1091
RunTrackEnd ==
    /\ pc = "rt_end"
    /\ cmds' = [cmds EXCEPT ![arm] = LoopEpilogue(@)]
    /\ pc' = "play_after"
    /\ UNCHANGED <<op, tracks, loopVars, envVars, play_stop, play_thread,
                   run_time, result, checked>>

\* lines 857-862
PlayAfter ==
    /\ pc = "play_after"
    /\ delay_k' = 0
    /\ IF play_stop THEN pc' = "play_end" /\ UNCHANGED ti
       ELSE IF ti < Len(tracks) THEN pc' = "play_delay" /\ UNCHANGED ti
       ELSE pc' = "play_end" /\ UNCHANGED ti
    /\ UNCHANGED <<op, tracks, arm, data, idx, step, steps, paused_by_file,
                   mark, cycle_stop, envVars, play_stop, play_thread, run_time,
                   cmds, result, checked>>

\* lines 864-870: DELAY_BETWEEN_TRACKS * 10 sleeps of 0.1 s, left on stop
PlayDelay ==
    /\ pc = "play_delay"
    /\ IF play_stop
       THEN pc' = "play_end" /\ UNCHANGED <<delay_k, ti>>
       ELSE IF delay_k < DELAY_BETWEEN_TRACKS * 10
            THEN delay_k' = delay_k + 1 /\ UNCHANGED <<pc, ti>>
       ELSE pc' = "play_loop" /\ ti' = ti + 1 /\ UNCHANGED delay_k
    /\ UNCHANGED <<op, tracks, arm, data, idx, step, steps, paused_by_file,
                   mark, cycle_stop, envVars, play_stop, play_thread, run_time,
                   cmds, result, checked>>

\* lines 872-874, and 1466-1468 of cmd_play_v2
PlayEnd ==
    /\ pc = "play_end"
    /\ play_thread' = "none"
    /\ play_stop' = TRUE
    /\ pc' = "idle"
    /\ result' = "done"
    /\ UNCHANGED <<op, tracks, loopVars, envVars, run_time, cmds, checked>>

\* ------------------------------------------------------------- cmd_play_v2
\* lines 1413-1417
CmdPlayV2(args) ==
    /\ pc = "idle" /\ ncmd < MaxCmds /\ ~rec.hybrid
    /\ ncmd' = ncmd + 1
    /\ op' = "play_v2" /\ tracks' = args
    /\ checked' = {}
    /\ IF args = <<>>
       THEN /\ ReturnEarly
            /\ UNCHANGED <<play_stop, play_thread>>
       ELSE /\ play_stop' = FALSE
            /\ play_thread' = "player"
            /\ pc' = "play2_first"
            /\ result' = "running"
    /\ UNCHANGED <<loopVars, sp, pause_file, pwrites, arm_pose, zero_tracks,
                   rec, run_time, cmds>>

\* lines 1419-1438: the pre-flight check is commented out here
PlayV2First ==
    /\ pc = "play2_first"
    /\ IF ArmFromName(tracks[1]) = "ValueError" THEN Raise("ValueError") /\ UNCHANGED ti
       ELSE IF ReadTrack(tracks[1]).err # "ok"
            THEN Raise(ReadTrack(tracks[1]).err) /\ UNCHANGED ti
       ELSE IF ReadTrack(tracks[1]).cls # "TrackV3Timed"
            THEN ReturnEarly /\ UNCHANGED ti
       ELSE IF Disk[tracks[1]].points = <<>>
            THEN Raise("IndexError") /\ UNCHANGED ti
       ELSE IF ~IsCloseIgnored(arm_pose[ArmFromName(tracks[1])],
                               Disk[tracks[1]].points[1].pt, TOLERANCE_ANGLE_UNITS)
            THEN Raise("AttributeError") /\ UNCHANGED ti
       ELSE pc' = "play2_loop" /\ ti' = 1 /\ UNCHANGED result
    /\ UNCHANGED <<op, tracks, arm, data, idx, step, steps, paused_by_file,
                   delay_k, mark, cycle_stop, envVars, play_stop, play_thread,
                   run_time, cmds, checked>>

\* lines 1440-1451
PlayV2Loop ==
    /\ pc = "play2_loop"
    /\ IF ti > Len(tracks) \/ play_stop
       THEN pc' = "play_end" /\ UNCHANGED <<result, data, arm, ti>>
       ELSE IF ReadTrack(tracks[ti]).err # "ok"
            THEN Raise(ReadTrack(tracks[ti]).err) /\ UNCHANGED <<data, arm, ti>>
       ELSE IF ReadTrack(tracks[ti]).cls # "TrackV3Timed"
            THEN ti' = ti + 1 /\ UNCHANGED <<pc, result, data, arm>>
       ELSE IF ArmFromName(tracks[ti]) = "ValueError"
            THEN Raise("ValueError") /\ UNCHANGED <<data, arm, ti>>
       ELSE /\ data' = Disk[tracks[ti]].points
            /\ arm' = ArmFromName(tracks[ti])
            /\ pc' = "tt_entry"
            /\ UNCHANGED <<result, ti>>
    /\ UNCHANGED <<op, tracks, idx, step, steps, paused_by_file, delay_k,
                   mark, cycle_stop, envVars, play_stop, play_thread, run_time,
                   cmds, checked>>

\* ------------------------------------------------------------ _move_smooth
\* lines 321-332: a glide from curr sends int(c + d * i) for i in range(steps)
MoveSmooth(log, curr, target) ==
    log \o [i \in 1..MoveSmoothSteps |->
              PoseCmd(EffectiveTarget(LerpPose(curr, target, MoveSmoothSteps, i - 1)), 0)]

\* -------------------------------------------------------- _run_timed_track
\* lines 1477-1494
TimedEntry0 ==
    /\ pc = "tt_entry"
    /\ Len(data) = 0
    /\ mark' = 0
    /\ pc' = "play2_after"
    /\ UNCHANGED <<op, tracks, ti, arm, data, idx, step, steps, paused_by_file,
                   delay_k, cycle_stop, envVars, play_stop, play_thread,
                   run_time, cmds, result, checked>>

TimedEntry1 ==
    /\ pc = "tt_entry"
    /\ Len(data) = 1
    /\ cmds' = [cmds EXCEPT ![arm] =
                  LoopEpilogue(MoveSmooth(PrepareTrackPlay(@), arm_pose[arm],
                                          data[1].pt))]
    /\ mark' = Len(cmds[arm]) + 2
    /\ pc' = "play2_after"
    /\ UNCHANGED <<op, tracks, ti, arm, data, idx, step, steps, paused_by_file,
                   delay_k, cycle_stop, envVars, play_stop, play_thread,
                   run_time, result, checked>>

TimedEntryN ==
    /\ pc = "tt_entry"
    /\ Len(data) >= 2
    /\ cmds' = [cmds EXCEPT ![arm] = PrepareTrackPlay(@)]
    /\ mark' = Len(cmds'[arm])
    /\ idx' = 2
    /\ pc' = "tt_seg"
    /\ UNCHANGED <<op, tracks, ti, arm, data, step, steps, paused_by_file,
                   delay_k, cycle_stop, envVars, play_stop, play_thread,
                   run_time, result, checked>>

\* lines 1496-1504: a segment begins
TimedSegment ==
    /\ pc = "tt_seg"
    /\ steps' = SegmentSteps(data[idx].duration, SpeedUp(tracks[ti]))
    /\ paused_by_file' = FALSE
    /\ step' = 1
    /\ cycle_stop' = play_stop
    /\ pc' = "tt_pause"
    /\ UNCHANGED <<op, tracks, ti, arm, data, idx, delay_k, mark, envVars,
                   play_stop, play_thread, run_time, cmds, result, checked>>

\* lines 1505-1516
TimedPause ==
    /\ pc = "tt_pause"
    /\ IF ExternalPauseActive
       THEN /\ cmds' = [cmds EXCEPT ![arm] =
                          IF paused_by_file THEN @ ELSE Append(@, Disengage)]
            /\ paused_by_file' = TRUE
            /\ pc' = "tt_pausewait"
       ELSE /\ pc' = "tt_resume"
            /\ UNCHANGED <<cmds, paused_by_file>>
    /\ UNCHANGED <<op, tracks, ti, arm, data, idx, step, steps, delay_k, mark,
                   cycle_stop, envVars, play_stop, play_thread, run_time,
                   result, checked>>

\* lines 1518-1519
TimedPauseWait ==
    /\ pc = "tt_pausewait"
    /\ ~(ExternalPauseActive /\ ~play_stop)
    /\ pc' = "tt_resume"
    /\ UNCHANGED <<op, tracks, loopVars, envVars, play_stop, play_thread,
                   run_time, cmds, result, checked>>

\* lines 1520-1527
TimedResume ==
    /\ pc = "tt_resume"
    /\ IF paused_by_file /\ ~ExternalPauseActive
       THEN /\ cmds' = [cmds EXCEPT ![arm] = Append(@, Engage)]
            /\ paused_by_file' = FALSE
       ELSE UNCHANGED <<cmds, paused_by_file>>
    /\ pc' = "tt_send"
    /\ UNCHANGED <<op, tracks, ti, arm, data, idx, step, steps, delay_k, mark,
                   cycle_stop, envVars, play_stop, play_thread, run_time,
                   result, checked>>

\* lines 1506 and 1529: the interpolated pose of this step is sent
TimedSend ==
    /\ pc = "tt_send"
    /\ cmds' = [cmds EXCEPT ![arm] =
                  SendPoint(@, LerpPose(data[idx - 1].pt, data[idx].pt, steps, step), 0)]
    /\ pc' = "tt_stopcheck"
    /\ UNCHANGED <<op, tracks, loopVars, envVars, play_stop, play_thread,
                   run_time, result, checked>>

\* lines 1530-1532: stop is looked at after the send
TimedStopCheck ==
    /\ pc = "tt_stopcheck"
    /\ pc' = IF play_stop THEN "tt_segend" ELSE "tt_sleep"
    /\ UNCHANGED <<op, tracks, loopVars, envVars, play_stop, play_thread,
                   run_time, cmds, result, checked>>

\* line 1533 and the step of the for loop: after time.sleep(period) the next
\* control cycle begins, or the segment is over
TimedSleep ==
    /\ pc = "tt_sleep"
    /\ IF step = steps
       THEN pc' = "tt_segend" /\ UNCHANGED <<step, cycle_stop>>
       ELSE /\ step' = step + 1
            /\ cycle_stop' = play_stop
            /\ pc' = "tt_pause"
    /\ UNCHANGED <<op, tracks, ti, arm, data, idx, steps, paused_by_file,
                   delay_k, mark, envVars, play_stop, play_thread, run_time,
                   cmds, result, checked>>

\* lines 1534-1535 and the step of the loop over the segments
TimedSegmentEnd ==
    /\ pc = "tt_segend"
    /\ IF play_stop \/ idx = Len(data)
       THEN pc' = "tt_end" /\ UNCHANGED idx
       ELSE pc' = "tt_seg" /\ idx' = idx + 1
    /\ UNCHANGED <<op, tracks, ti, arm, data, step, steps, paused_by_file,
                   delay_k, mark, cycle_stop, envVars, play_stop, play_thread,
                   run_time, cmds, result, checked>>

\* line 1537
TimedEnd ==
    /\ pc = "tt_end"
    /\ cmds' = [cmds EXCEPT ![arm] = LoopEpilogue(@)]
    /\ pc' = "play2_after"
    /\ UNCHANGED <<op, tracks, loopVars, envVars, play_stop, play_thread,
                   run_time, result, checked>>

\* lines 1453-1455
PlayV2After ==
    /\ pc = "play2_after"
    /\ IF play_stop THEN pc' = "play_end" /\ UNCHANGED ti
       ELSE pc' = "play2_loop" /\ ti' = ti + 1
    /\ UNCHANGED <<op, tracks, arm, data, idx, step, steps, paused_by_file,
                   delay_k, mark, cycle_stop, envVars, play_stop, play_thread,
                   run_time, cmds, result, checked>>

\* ------------------------------------------------------- cmd_play_parallel
\* lines 882-899: both names given, both prefixed, one per arm
CmdPlayParallel(args) ==
    /\ pc = "idle" /\ ncmd < MaxCmds /\ ~rec.hybrid
    /\ ncmd' = ncmd + 1
    /\ op' = "play_parallel" /\ tracks' = args
    /\ checked' = {}
    /\ IF args[1] = <<>> \/ args[2] = <<>> THEN ReturnEarly
       ELSE IF \E i \in 1..2 : ~(StartsWith(args[i], LeftPrefix)
                                 \/ StartsWith(args[i], RightPrefix))
            THEN Reject
       ELSE IF \/ StartsWith(args[1], LeftPrefix) /\ StartsWith(args[2], LeftPrefix)
               \/ StartsWith(args[1], RightPrefix) /\ StartsWith(args[2], RightPrefix)
            THEN ReturnEarly
       ELSE pc' = "pp_safety" /\ result' = "running"
    /\ UNCHANGED <<loopVars, sp, pause_file, pwrites, arm_pose, zero_tracks,
                   rec, run_time, cmds, play_stop, play_thread>>

\* lines 902-908: the pre-flight check of each arm in turn
ParallelSafety ==
    /\ pc = "pp_safety"
    /\ IF ~zero_tracks
       THEN ReturnEarly /\ UNCHANGED checked
       ELSE /\ checked' = {ArmFromName(tracks[1]), ArmFromName(tracks[2])}
            /\ pc' = "pp_first"
            /\ UNCHANGED result
    /\ UNCHANGED <<op, tracks, loopVars, envVars, play_stop, play_thread,
                   run_time, cmds>>

\* lines 911-914: first_pt is the TrackPoint itself, not its coordinates, so
\* zip() inside _max_delta_and_joint_ignored raises TypeError
ParallelFirst ==
    /\ pc = "pp_first"
    /\ LET first == Load(tracks[1])
       IN  IF first.err # "ok" THEN Raise(first.err)
           ELSE IF first.pts = <<>> THEN Raise("IndexError")
           ELSE Raise("TypeError")
    /\ UNCHANGED <<op, tracks, loopVars, envVars, play_stop, play_thread,
                   run_time, cmds, checked>>

\* --------------------------------------------------------------- recording
TeachCmd(v) == [k |-> "teach", v |-> <<v>>, at |-> 0]

\* a tail that leaves the arm in teach mode
FinalizeRecordNoTeachOff(log) == log \o <<EnableCmd, ModeCmd(1, 0)>>

\* _finalize_record
FinalizeRecord(log) == log \o <<TeachCmd(2), EnableCmd, ModeCmd(1, 0)>>

\* track_file.exists(): a file on disk, or written by a recording before
Exists(name) == name \in DOMAIN Disk \cup rec.written

\* a confirmation that lets every answer pass
ConfirmOverwriteAlways(ans) == TRUE

\* _confirm_overwrite, lines 311-318: the answer typed, or EOF / interrupt
ConfirmOverwrite(ans) == ans = "y"

\* the arm the recording thread was started on
RecArm == IF rec.mode = "safe" THEN "left" ELSE ArmFromName(rec.name)

\* cmd_record, lines 552-577, with one argument; max is the number of
\* commands the operator enters
CmdRecord(name, max) ==
    /\ pc = "idle" /\ ncmd < max /\ ~rec.hybrid
    /\ ncmd' = ncmd + 1
    /\ op' = "record" /\ tracks' = <<name>>
    /\ IF rec.mode # "none" THEN Busy /\ UNCHANGED rec
       ELSE \E ans \in (IF Exists(name) THEN {"y", "n", "eof"} ELSE {"none"}) :
              IF Exists(name) /\ ~ConfirmOverwrite(ans)
              THEN /\ pc' = "idle" /\ result' = "declined"
                   /\ rec' = [rec EXCEPT !.answer = ans]
              ELSE IF ArmFromName(name) = "ValueError"
                   THEN Raise("ValueError") /\ rec' = [rec EXCEPT !.answer = ans]
              ELSE /\ rec' = [rec EXCEPT !.mode = "dense", !.name = name,
                                         !.stage = "starting", !.stop = FALSE,
                                         !.answer = ans]
                   /\ pc' = "idle" /\ result' = "started"
    /\ UNCHANGED <<loopVars, sp, pause_file, pwrites, arm_pose, zero_tracks,
                   run_time, cmds, play_stop, play_thread, checked>>

\* cmd_r_0_track, lines 585-611, without argument: the name is a time stamp,
\* no file of that name exists, the arm is the left one
CmdR0Track(max) ==
    /\ pc = "idle" /\ ncmd < max /\ ~rec.hybrid
    /\ ncmd' = ncmd + 1
    /\ op' = "r_0_track" /\ tracks' = <<>>
    /\ IF rec.mode # "none" THEN Busy /\ UNCHANGED rec
       ELSE /\ rec' = [rec EXCEPT !.mode = "safe", !.name = <<"zero_track">>,
                                  !.stage = "starting", !.stop = FALSE,
                                  !.answer = "none"]
            /\ pc' = "idle" /\ result' = "started"
    /\ UNCHANGED <<loopVars, sp, pause_file, pwrites, arm_pose, zero_tracks,
                   run_time, cmds, play_stop, play_thread, checked>>

\* _rec_worker and _rec_worker_safe, lines 617-618, 762-763: drag-teach on
RecWorkerStart ==
    /\ rec.mode # "none" /\ rec.stage = "starting"
    /\ cmds' = [cmds EXCEPT ![RecArm] = Append(@, TeachCmd(1))]
    /\ rec' = [rec EXCEPT !.stage = "sampling"]
    /\ UNCHANGED <<pc, op, tracks, loopVars, sp, pause_file, pwrites, arm_pose,
                   zero_tracks, ncmd, play_stop, play_thread, run_time, result,
                   checked>>

\* cmd_s, lines 1398-1405: set _rec_stop and join the worker
CmdS ==
    /\ pc = "idle" /\ rec.mode # "none" /\ ~rec.hybrid
    /\ rec' = [rec EXCEPT !.stop = TRUE]
    /\ pc' = "s_join"
    /\ UNCHANGED <<op, tracks, loopVars, sp, pause_file, pwrites, arm_pose,
                   zero_tracks, ncmd, play_stop, play_thread, run_time, cmds,
                   result, checked>>

\* _rec_worker, _rec_worker_safe: the loop sees _rec_stop; the finally block
\* finalizes and writes the track file (the zero track for the safe worker)
RecWorkerEnd ==
    /\ rec.mode # "none" /\ rec.stage = "sampling" /\ rec.stop
    /\ cmds' = [cmds EXCEPT ![RecArm] = FinalizeRecord(@)]
    /\ rec' = [rec EXCEPT !.mode = "none", !.name = <<>>, !.stage = "none",
                          !.stop = FALSE,
                          !.written = IF rec.mode = "dense" THEN @ \cup {rec.name}
                                      ELSE @]
    /\ zero_tracks' = (zero_tracks \/ rec.mode = "safe")
    /\ UNCHANGED <<pc, op, tracks, loopVars, sp, pause_file, pwrites, arm_pose,
                   ncmd, play_stop, play_thread, run_time, result, checked>>

\* cmd_s, line 1404: join returns
StopRecordJoined ==
    /\ pc = "s_join" /\ rec.mode = "none"
    /\ pc' = "idle"
    /\ UNCHANGED <<op, tracks, loopVars, envVars, play_stop, play_thread,
                   run_time, cmds, result, checked>>

\* cmd_record_v2, lines 1307-1354, with one argument
CmdRecordV2(name, max) ==
    /\ pc = "idle" /\ ncmd < max /\ ~rec.hybrid
    /\ ncmd' = ncmd + 1
    /\ op' = "record_v2" /\ tracks' = <<name>>
    /\ \E ans \in (IF Exists(name) THEN {"y", "n", "eof"} ELSE {"none"}) :
         IF Exists(name) /\ ~ConfirmOverwrite(ans)
         THEN /\ pc' = "idle" /\ result' = "declined"
              /\ rec' = [rec EXCEPT !.answer = ans] /\ UNCHANGED cmds
         ELSE IF ArmFromName(name) = "ValueError"
              THEN Reject /\ rec' = [rec EXCEPT !.answer = ans] /\ UNCHANGED cmds
         ELSE /\ cmds' = [cmds EXCEPT ![ArmFromName(name)] = Append(@, TeachCmd(1))]
              /\ rec' = [rec EXCEPT !.hybrid = TRUE, !.hname = name,
                                    !.answer = ans]
              /\ pc' = "idle" /\ result' = "started"
    /\ UNCHANGED <<loopVars, sp, pause_file, pwrites, arm_pose, zero_tracks,
                   run_time, play_stop, play_thread, checked>>

\* _stop_hybrid_recording, lines 1542-1561, on the line "s"
StopHybridRecording ==
    /\ pc = "idle" /\ rec.hybrid
    /\ cmds' = [cmds EXCEPT ![ArmFromName(rec.hname)] = FinalizeRecord(@)]
    /\ rec' = [rec EXCEPT !.hybrid = FALSE, !.hname = <<>>,
                          !.written = @ \cup {rec.hname}]
    /\ UNCHANGED <<pc, op, tracks, loopVars, sp, pause_file, pwrites, arm_pose,
                   zero_tracks, ncmd, play_stop, play_thread, run_time, result,
                   checked>>

\* --------------------------------------------------------------- stop_play
\* line 1208, called once from a thread other than the playing one
StopPlaySet ==
    /\ sp = "idle"
    /\ play_stop' = TRUE
    /\ sp' = "check"
    /\ UNCHANGED <<pc, op, tracks, loopVars, pause_file, pwrites, arm_pose,
                   zero_tracks, rec, ncmd, play_thread, run_time, cmds, result,
                   checked>>

\* line 1210: is there a playing thread
StopPlayCheck ==
    /\ sp = "check"
    /\ sp' = IF play_thread # "none" THEN "join" ELSE "clear"
    /\ UNCHANGED <<pc, op, tracks, loopVars, pause_file, pwrites, arm_pose,
                   zero_tracks, rec, ncmd, play_stop, play_thread, run_time,
                   cmds, result, checked>>

\* line 1211: self._play_thread is read again; None has no join()
StopPlayJoin ==
    /\ sp = "join"
    /\ sp' = IF play_thread = "none" THEN "AttributeError" ELSE "joining"
    /\ UNCHANGED <<pc, op, tracks, loopVars, pause_file, pwrites, arm_pose,
                   zero_tracks, rec, ncmd, play_stop, play_thread, run_time,
                   cmds, result, checked>>

\* line 1211: join() returns when the command has ended
StopPlayJoined ==
    /\ sp = "joining" /\ pc = "idle"
    /\ sp' = "clear"
    /\ UNCHANGED <<pc, op, tracks, loopVars, pause_file, pwrites, arm_pose,
                   zero_tracks, rec, ncmd, play_stop, play_thread, run_time,
                   cmds, result, checked>>

\* line 1212
StopPlayClear ==
    /\ sp = "clear"
    /\ play_thread' = "none"
    /\ sp' = "done"
    /\ UNCHANGED <<pc, op, tracks, loopVars, pause_file, pwrites, arm_pose,
                   zero_tracks, rec, ncmd, play_stop, run_time, cmds, result,
                   checked>>

\* ---------------------------------------------------------- pause sentinel
\* an external writer replaces the content of pause.txt
WritePause(v) ==
    /\ pwrites < MaxPauseWrites
    /\ pause_file # v
    /\ pause_file' = v
    /\ pwrites' = pwrites + 1
    /\ UNCHANGED <<pc, op, tracks, loopVars, sp, arm_pose, zero_tracks, rec,
                   ncmd, play_stop, play_thread, run_time, cmds, result, checked>>

\* ------------------------------------------------------------ the system
Command ==
    \/ \E args \in PlayArgs : CmdPlay(args)
    \/ \E args \in PlayV2Args : CmdPlayV2(args)
    \/ \E args \in ParallelArgs : CmdPlayParallel(args)
    \/ \E name \in RecordArgs : CmdRecord(name, MaxCmds)
    \/ \E name \in RecordArgs : CmdRecordV2(name, MaxCmds)

Next ==
    \/ Command
    \/ PlaySafety \/ PlayFirst \/ PlayLoop
    \/ RunTrackPrepare \/ RunTrackTop \/ RunTrackWait \/ RunTrackSend
    \/ RunTrackPause \/ RunTrackPauseWait \/ RunTrackResume \/ RunTrackEnd
    \/ PlayAfter \/ PlayDelay \/ PlayEnd
    \/ PlayV2First \/ PlayV2Loop \/ PlayV2After
    \/ TimedEntry0 \/ TimedEntry1 \/ TimedEntryN \/ TimedSegment
    \/ TimedPause \/ TimedPauseWait \/ TimedResume \/ TimedSend
    \/ TimedStopCheck \/ TimedSleep \/ TimedSegmentEnd \/ TimedEnd
    \/ ParallelSafety \/ ParallelFirst
    \/ RecWorkerStart \/ CmdS \/ RecWorkerEnd \/ StopRecordJoined
    \/ StopHybridRecording
    \/ StopPlaySet \/ StopPlayCheck \/ StopPlayJoin \/ StopPlayJoined
    \/ StopPlayClear
    \/ \E v \in {"0", "1"} : WritePause(v)

Spec == Init /\ [][Next]_vars

\* ------------------------------------------------- one segment in isolation
\* _run_timed_track on a track of two control points, after
\* _prepare_track_play, with no stop request and no pause: the inputs of the
\* interpolation are drawn from the sets below.
ZeroPose == <<0, 0, 0, 0, 0, 0, 0>>
SegmentNames == {LO, RT, RD}
SegmentDurations == {Dec(14, 100), Dec(2, 10), Dec(1, 1)}
SegmentTargets == {<<61, 0, 0, 0, 0, 0, 50000>>, <<1000, -2043, 0, 0, 0, 0, 29>>}

SegmentInit ==
    \E name \in SegmentNames, d \in SegmentDurations, target \in SegmentTargets :
        /\ pc = "tt_seg" /\ op = "play_v2" /\ tracks = <<name>>
        /\ ti = 1 /\ arm = ArmFromName(name)
        /\ data = <<TimedEntry(ZeroPose, 0, 1), [pt |-> target, duration |-> d]>>
        /\ idx = 2 /\ step = 0 /\ steps = 0
        /\ paused_by_file = FALSE /\ delay_k = 0
        /\ play_stop = FALSE /\ play_thread = "player"
        /\ sp = "idle"
        /\ pause_file = "0" /\ pwrites = 0
        /\ run_time = 0
        /\ cmds = [a \in Arms |-> IF a = ArmFromName(name)
                                  THEN PrepareTrackPlay(<<>>) ELSE <<>>]
        /\ arm_pose = [a \in Arms |-> ZeroPose]
        /\ zero_tracks = TRUE
        /\ result = "running" /\ checked = {} /\ mark = 2 /\ cycle_stop = FALSE
        /\ rec = NoRecording
        /\ ncmd = 1

SegmentNext ==
    \/ TimedSegment \/ TimedPause \/ TimedResume \/ TimedSend
    \/ TimedStopCheck \/ TimedSleep \/ TimedSegmentEnd \/ TimedEnd

SegmentSpec == SegmentInit /\ [][SegmentNext]_vars

\* ------------------------------------------------------------- properties
\* the pose commands of a log from position m on
PosesFrom(log, m) ==
    SelectSeq(SubSeq(log, m, Len(log)), LAMBDA c : c.k = "pose")

HasPose(log) == \E i \in 1..Len(log) : log[i].k = "pose"

\* the mode last commanded before position i of a log, <<>> when none was
ModeBefore(log, i) ==
    LET before == {j \in 1..(i - 1) : log[j].k = "mode"}
    IN  IF before = {} THEN <<>>
        ELSE log[CHOOSE j \in before : \A h \in before : h <= j].v

DensePcs == {"rt_top", "rt_wait", "rt_send", "rt_pause", "rt_pausewait",
             "rt_resume", "rt_end"}

\* the arm a name's prefix stands for
NameSelects(name, a) ==
    \/ a = "left" /\ StartsWith(name, LeftPrefix)
    \/ a = "right" /\ StartsWith(name, RightPrefix)

Prefixed(name) == StartsWith(name, LeftPrefix) \/ StartsWith(name, RightPrefix)

\* the names on whose behalf hardware is commanded: the track being played
\* and the track being recorded
ActiveNames ==
    (IF pc \notin {"idle", "s_join"} /\ ti \in 1..Len(tracks)
     THEN {tracks[ti]} ELSE {})
    \cup (IF rec.mode # "none" THEN {rec.name} ELSE {})
    \cup (IF rec.hybrid THEN {rec.hname} ELSE {})

\* the command that has ended was given a first name (for play_parallel: a
\* pair of names, one of them) with neither prefix
UnprefixedRequest ==
    /\ pc = "idle"
    /\ op \in {"play", "play_v2", "play_parallel", "record", "record_v2"}
    /\ tracks # <<>>
    /\ \A i \in 1..Len(tracks) : tracks[i] # <<>>
    /\ IF op = "play_parallel" THEN \E i \in 1..2 : ~Prefixed(tracks[i])
       ELSE ~Prefixed(tracks[1])

NotAtStart ==
    /\ op \in {"play", "play_v2"}
    /\ tracks # <<>>
    /\ ArmFromName(tracks[1]) \in Arms
    /\ op = "play" => zero_tracks
    /\ op = "play_v2" => ReadTrack(tracks[1]).cls = "TrackV3Timed"
    /\ Load(tracks[1]).err = "ok"
    /\ Load(tracks[1]).pts # <<>>
    /\ ~IsCloseIgnored(arm_pose[ArmFromName(tracks[1])],
                       Load(tracks[1]).pts[1].coordinates, TOLERANCE_ANGLE_UNITS)

\* C2: when the arm is not within tolerance of the first point of the first
\* track, playback first glides to that point (and aborts when the glide does
\* not converge): once such a request has ended, pose commands of the glide
\* have been sent to the arm.
C2_GlidesToStart ==
    (pc = "idle" /\ NotAtStart) => HasPose(cmds[ArmFromName(tracks[1])])

\* C3: before a pose command is sent to an arm by cmd_play or cmd_play_v2,
\* the pre-flight safety check has been performed for that arm.
C3_CheckedBeforePose ==
    \A a \in Arms :
        (op \in {"play", "play_v2"} /\ HasPose(cmds[a])) => a \in checked

\* C4: when a playback loop that engaged motion mode has ended - at the end
\* of the track or by cancellation at any step, also while paused - the last
\* mode command issued to that arm is the disengage command (0, 0), and no
\* pose command follows it.
C4_LoopEndsDisengaged ==
    (pc \in {"play_after", "play2_after"} /\ mark > 0)
    => LET log == cmds[arm]
           modes == {i \in 1..Len(log) : log[i].k = "mode"}
           last == CHOOSE i \in modes : \A j \in modes : j <= i
       IN  /\ modes # {}
           /\ log[last].v = <<0, 0>>
           /\ \A j \in (last + 1)..Len(log) : log[j].k # "pose"

C4_Witness ==
    /\ pc = "play_after" /\ play_stop /\ paused_by_file
    /\ HasPose(cmds[arm])

\* C5: the stop flag is checked at the top of every control cycle, before the
\* cycle's pose command: a pose command has just been sent only in a control
\* cycle that began with the stop flag clear.
C5_NoPoseInCycleAfterStop ==
    (pc \in {"rt_pause", "tt_stopcheck"}) => ~cycle_stop

\* C6: no pose command is sent while the arm is disengaged because of pause:
\* in every arm's log the mode command that last precedes a pose command is
\* the engage command (1, 1).
C6_NoPoseWhileDisengaged ==
    \A a \in Arms : \A i \in 1..Len(cmds[a]) :
        cmds[a][i].k = "pose" => ModeBefore(cmds[a], i) = <<1, 1>>

\* C7: a pause does not advance trajectory time: in a dense playback that
\* was not cancelled, consecutive points are commanded at least as far apart
\* as their timestamps, whatever pauses happened - no burst after resume.
C7_PauseKeepsSchedule ==
    (op = "play" /\ pc \in DensePcs /\ ~play_stop)
    => LET poses == PosesFrom(cmds[arm], mark)
       IN  \A j \in 1..(Len(poses) - 1) :
               poses[j + 1].at - poses[j].at
               >= data[j + 1].coordinates_timestamp - data[j].coordinates_timestamp

\* max(1, floor(d * (1 - s) * hz)) in exact arithmetic
ExactSegmentSteps(duration, speed_up) ==
    LET k == (duration.n * (speed_up.d - speed_up.n) * ControlHz)
             \div (duration.d * speed_up.d)
    IN  IF k > 1 THEN k ELSE 1

\* C8: a segment of duration d played with speed-up s at rate hz issues
\* exactly max(1, floor(d * (1 - s) * hz)) pose commands, and the pose of its
\* last step is the segment's target control point in all 7 components.
C8_StepsAndLastPose ==
    pc = "play2_after"
    => LET poses == PosesFrom(cmds[arm], mark)
       IN  /\ Len(poses) = ExactSegmentSteps(data[2].duration, SpeedUp(tracks[1]))
           /\ poses[Len(poses)].v = EffectiveTarget(data[2].pt)

C10_ParallelPlaysBoth ==
    ( /\ pc = "idle" /\ op = "play_parallel"
      /\ \A i \in 1..2 : Prefixed(tracks[i])
      /\ ArmFromName(tracks[1]) # ArmFromName(tracks[2])
      /\ zero_tracks
      /\ \A i \in 1..2 : Load(tracks[i]).err = "ok" /\ Load(tracks[i]).pts # <<>> )
    => /\ result = "done"
       /\ \A i \in 1..2 :
              Len(PosesFrom(cmds[ArmFromName(tracks[i])], 1))
              >= Len(Load(tracks[i]).pts)

\* ------------------------------------------- two playbacks on one terminal
\* gui.py starts every playback on a thread of its own (lines 153-163) and
\* does not look at is_playing(): play_tracks can run for a left__ track and
\* for a right__ track at the same time on the one PiperTerminal.  Here pc,
\* tracks, data and idx hold one value per arm, the value of the session that
\* plays on that arm; _play_stop and _play_thread are the terminal's.  Both
\* arms stand at the first point and a zero track exists, so that the safety
\* check passes and no glide is needed.
pairFrame == <<op, ti, arm, step, steps, paused_by_file, delay_k, pause_file,
               pwrites, run_time, arm_pose, zero_tracks, result, checked, mark,
               cycle_stop, rec, ncmd>>

PairInit ==
    /\ pc = [a \in Arms |-> "idle"]
    /\ tracks = [a \in Arms |-> IF a = "left" THEN LA ELSE RB]
    /\ data = [a \in Arms |-> <<>>] /\ idx = [a \in Arms |-> 0]
    /\ cmds = [a \in Arms |-> <<>>]
    /\ play_stop = TRUE /\ play_thread = "none" /\ sp = "idle"
    /\ op = "play" /\ ti = 1 /\ arm = "none" /\ step = 0 /\ steps = 0
    /\ paused_by_file = FALSE /\ delay_k = 0 /\ pause_file = "0" /\ pwrites = 0
    /\ run_time = 0 /\ arm_pose = [a \in Arms |-> P1] /\ zero_tracks = TRUE
    /\ result = "none" /\ checked = {} /\ mark = 0 /\ cycle_stop = FALSE
    /\ rec = NoRecording /\ ncmd = 0

\* cmd_play, lines 821-823: the session of arm a starts
PairCmdPlay(a) ==
    /\ pc[a] = "idle"
    /\ play_stop' = FALSE /\ play_thread' = a
    /\ pc' = [pc EXCEPT ![a] = "play_loop"]
    /\ UNCHANGED <<tracks, data, idx, cmds, sp, pairFrame>>

\* cmd_play, lines 847-855: the stop check, _load, and _prepare_track_play
PairPlayLoop(a) ==
    /\ pc[a] = "play_loop"
    /\ IF play_stop
       THEN pc' = [pc EXCEPT ![a] = "play_end"] /\ UNCHANGED <<data, idx, cmds>>
       ELSE /\ data' = [data EXCEPT ![a] = Load(tracks[a]).pts]
            /\ idx' = [idx EXCEPT ![a] = 1]
            /\ cmds' = [cmds EXCEPT ![a] = PrepareTrackPlay(@)]
            /\ pc' = [pc EXCEPT ![a] = "rt_top"]
    /\ UNCHANGED <<tracks, play_stop, play_thread, sp, pairFrame>>

\* _run_track, lines 1001-1004 and 1091: the check at the top of the loop;
\* the loop ends with ModeCtrl(0, 0)
PairRunTrackTop(a) ==
    /\ pc[a] = "rt_top"
    /\ IF play_stop \/ idx[a] > Len(data[a])
       THEN /\ cmds' = [cmds EXCEPT ![a] = Append(@, Disengage)]
            /\ pc' = [pc EXCEPT ![a] = "play_end"]
       ELSE pc' = [pc EXCEPT ![a] = "rt_send"] /\ UNCHANGED cmds
    /\ UNCHANGED <<tracks, data, idx, play_stop, play_thread, sp, pairFrame>>

\* _run_track, lines 1006-1020: the point is due, _send_point
PairRunTrackSend(a) ==
    /\ pc[a] = "rt_send"
    /\ cmds' = [cmds EXCEPT ![a] = SendPoint(@, data[a][idx[a]].coordinates, 0)]
    /\ idx' = [idx EXCEPT ![a] = @ + 1]
    /\ pc' = [pc EXCEPT ![a] = "rt_top"]
    /\ UNCHANGED <<tracks, data, play_stop, play_thread, sp, pairFrame>>

\* cmd_play, lines 872-874, and the finally block of play_tracks
PairPlayEnd(a) ==
    /\ pc[a] = "play_end"
    /\ play_thread' = "none" /\ play_stop' = TRUE
    /\ pc' = [pc EXCEPT ![a] = "done"]
    /\ UNCHANGED <<tracks, data, idx, cmds, sp, pairFrame>>

\* stop_play, line 1208, called once
PairStopPlay ==
    /\ sp = "idle" /\ \E a \in Arms : pc[a] \notin {"idle", "done"}
    /\ play_stop' = TRUE /\ sp' = "set"
    /\ UNCHANGED <<pc, tracks, data, idx, cmds, play_thread, pairFrame>>

PairSpec ==
    PairInit /\ [][\/ \E a \in Arms : \/ PairCmdPlay(a) \/ PairPlayLoop(a)
                                       \/ PairRunTrackTop(a)
                                       \/ PairRunTrackSend(a) \/ PairPlayEnd(a)
                   \/ PairStopPlay]_vars

\* C11: playback state is private to each arm: a session that has ended
\* while nobody asked to stop the playback has commanded every point of its
\* track, whatever the session on the other arm did meanwhile.
C11_SessionsIndependent ==
    \A a \in Arms :
        (pc[a] = "done" /\ sp = "idle")
        => Len(PosesFrom(cmds[a], 1)) = Len(Load(tracks[a]).pts)

\* ---------------------------------------------------------- _current_point
\* One call of _current_point on one arm.  run_time is the time since the
\* call in milliseconds, arm_pose the reading the hardware gives at the next
\* GetArmJointMsgs / GetArmGripperMsgs, mark the time of warned_at, steps the
\* number of warnings logged, result the value returned.  time.sleep(0.005)
\* lasts 5 ms or, late, 6 ms.
MaxPollMs == 130

DeadlineMs == 100
BackoffMs == 5

CurrentPointInit ==
    /\ pc = "cp_read" /\ run_time = 0 /\ mark = 0 /\ steps = 0
    /\ arm = "left" /\ arm_pose \in {[a \in Arms |-> ZeroPose]}
    /\ result = "none" /\ op = "current_point" /\ tracks = <<>>
    /\ ti = 0 /\ data = <<>> /\ idx = 0 /\ step = 0
    /\ paused_by_file = FALSE /\ delay_k = 0 /\ play_stop = TRUE
    /\ play_thread = "none" /\ sp = "idle" /\ pause_file = "0" /\ pwrites = 0
    /\ cmds = [a \in Arms |-> <<>>] /\ zero_tracks = TRUE /\ checked = {}
    /\ cycle_stop = FALSE /\ rec = NoRecording /\ ncmd = 0

\* lines 1109-1127: read; return a reading that is not all zeros; past the
\* deadline warn, at most once per 100 ms
CurrentPointRead ==
    /\ pc = "cp_read"
    /\ IF \E j \in 1..7 : arm_pose[arm][j] # 0
       THEN /\ pc' = "cp_done" /\ result' = arm_pose[arm]
            /\ UNCHANGED <<mark, steps>>
       ELSE /\ pc' = "cp_sleep" /\ UNCHANGED result
            /\ IF run_time >= DeadlineMs /\ run_time - mark > DeadlineMs
               THEN mark' = run_time /\ steps' = steps + 1
               ELSE UNCHANGED <<mark, steps>>
    /\ UNCHANGED <<op, tracks, ti, arm, data, idx, step, paused_by_file, delay_k,
                   cycle_stop, envVars, play_stop, play_thread, run_time, cmds,
                   checked>>

\* line 1129: time.sleep(0.005); meanwhile the hardware may get valid data
CurrentPointSleep ==
    /\ pc = "cp_sleep"
    /\ \E d \in {BackoffMs, BackoffMs + 1} :
           /\ run_time + d <= MaxPollMs
           /\ run_time' = run_time + d
    /\ \E r \in {ZeroPose, P1} : arm_pose' = [arm_pose EXCEPT ![arm] = r]
    /\ pc' = "cp_read"
    /\ UNCHANGED <<op, tracks, loopVars, sp, pause_file, pwrites, zero_tracks,
                   rec, ncmd, play_stop, play_thread, cmds, result, checked>>

CurrentPointSpec ==
    CurrentPointInit /\ [][CurrentPointRead \/ CurrentPointSleep]_vars

\* C12: current_pose ends within its retry window: a reading of all zeros
\* taken at or after the 100 ms deadline is returned, the accessor does not
\* go on polling.
C12_ReturnsAtDeadline == (pc = "cp_sleep") => run_time < DeadlineMs

\* C18: playing a sparse-timed track with zero points is a no-op: a play_v2
\* command whose tracks are all empty ends without an error and with no
\* hardware command on either arm, and an empty track played as a later track
\* of the command ends without engaging the arm.
C18_EmptyTimedIsNoOp ==
    /\ ( /\ pc = "idle" /\ op = "play_v2" /\ tracks # <<>>
         /\ \A i \in 1..Len(tracks) :
                /\ ReadTrack(tracks[i]).cls = "TrackV3Timed"
                /\ Disk[tracks[i]].points = <<>> )
       => (result = "done" /\ \A a \in Arms : cmds[a] = <<>>)
    /\ ( /\ pc = "play2_after" /\ op = "play_v2" /\ data = <<>> )
       => (mark = 0 /\ result = "running")

\* ------------------------------------------------- track files: load, write
\* One track file and its sidecar, as read_track / track_points load it and
\* as TrackV3Timed.write_from_points rewrites it.  data is the stored
\* document, tracks the arguments of the last write_from_points, result the
\* outcome of the last call.
MaxPoints == 2

\* TrackV3Timed.durations: float(item["duration"]) per entry
Durations(doc) ==
    [i \in 1..Len(doc.points) |->
        FDivInt(doc.points[i].duration.n, doc.points[i].duration.d)]

\* a writer that keeps one decimal only: the fault C16 must exclude
FloatReprOneDecimal(x) == Dec(FTrunc(FMul(x, FFromInt(10))), 10)

\* repr of a float as json.dumps writes it: the shortest decimal that reads
\* back as the same float (here for floats with at most three decimals)
FloatRepr(x) ==
    LET Reads(d) == LET t == FTrunc(FMul(x, FFromInt(d)))
                    IN  {n \in {t, t + 1} : FSub(FDivInt(n, d), x).m = <<>>}
        d0 == CHOOSE d \in {1, 10, 100, 1000} :
                  /\ Reads(d) # {}
                  /\ \A e \in {1, 10, 100, 1000} : e < d => Reads(e) = {}
    IN  Dec(CHOOSE n \in Reads(d0) : TRUE, d0)

\* a writer that stores the pairs last first: the fault C33 must exclude
WriteFromPointsReversed(doc, points, durations) ==
    IF Len(points) # Len(durations) THEN [err |-> "ValueError", doc |-> doc]
    ELSE [err |-> "ok",
          doc |-> [version |-> "v3.0",
                   points |-> [i \in 1..Len(points) |->
                                 [pt |-> points[Len(points) + 1 - i],
                                  duration |-> FloatRepr(
                                      durations[Len(points) + 1 - i])]],
                   details |-> doc.details]]

\* TrackV3Timed.write_from_points over the stored document doc: the error and
\* the document afterwards; the sidecar is not touched
WriteFromPoints(doc, points, durations) ==
    IF Len(points) # Len(durations) THEN [err |-> "ValueError", doc |-> doc]
    ELSE [err |-> "ok",
          doc |-> [version |-> "v3.0",
                   points |-> [i \in 1..Len(points) |->
                                 [pt |-> points[i],
                                  duration |-> FloatRepr(durations[i])]],
                   details |-> doc.details]]

\* the documents a track file may hold before the calls
Docs ==
    [version : {"v3.0", "v2.0", "none", "absent", "v9.9"},
     points : {<<>>, <<DenseEntry(P1, 7000)>>,
               <<DenseEntry(P1, 7000), DenseEntry(P2, 7002)>>,
               <<TimedEntry(P1, 0, 1)>>,
               <<TimedEntry(P1, 0, 1), TimedEntry(P2, 5, 100)>>,
               <<DenseEntry(P1, 7000), TimedEntry(P2, 5, 100)>>,
               <<[pt |-> P3]>>, <<[pt |-> P3], [pt |-> P1]>>},
     details : {<<>>, <<Telemetry(7001)>>, <<Telemetry(7001), Telemetry(7003)>>,
                <<[ts |-> 7001, telemetry |-> FALSE]>>,
                <<Telemetry(7001), [ts |-> 7003, telemetry |-> FALSE]>>}]

TrackInit ==
    /\ pc = "stored" /\ data \in Docs /\ op = "none" /\ tracks = <<>>
    /\ result = "none"
    /\ ti = 0 /\ arm = "none" /\ idx = 0 /\ step = 0 /\ steps = 0
    /\ paused_by_file = FALSE /\ delay_k = 0 /\ mark = 0 /\ cycle_stop = FALSE
    /\ play_stop = TRUE /\ play_thread = "none" /\ sp = "idle"
    /\ pause_file = "0" /\ pwrites = 0 /\ run_time = 0
    /\ cmds = [a \in Arms |-> <<>>] /\ arm_pose = [a \in Arms |-> P1]
    /\ zero_tracks = TRUE /\ checked = {} /\ rec = NoRecording /\ ncmd = 0

\* write_from_points(name, points, durations), once
TrackWrite ==
    /\ pc = "stored" /\ op = "none"
    /\ \E np \in 0..MaxPoints, nd \in 0..MaxPoints :
       \E points \in [1..np -> {P1, P2}],
          durations \in [1..nd -> {FDivInt(5, 100), FDivInt(3, 2), FFromInt(2)}] :
           /\ tracks' = <<points, durations>>
           /\ data' = WriteFromPoints(data, points, durations).doc
           /\ result' = [err |-> WriteFromPoints(data, points, durations).err]
    /\ op' = "write"
    /\ UNCHANGED <<pc, ti, arm, idx, step, steps, paused_by_file, delay_k, mark,
                   cycle_stop, envVars, play_stop, play_thread, run_time, cmds,
                   checked>>

\* _load: read_track, then track_points (and durations of a timed track)
TrackLoad ==
    /\ pc \in {"stored", "loaded"}
    /\ pc' = "loaded"
    /\ result' = IF ReadDoc(data).err # "ok"
                 THEN [cls |-> "none", err |-> ReadDoc(data).err, pts |-> <<>>,
                       durations |-> <<>>]
                 ELSE [cls |-> ReadDoc(data).cls,
                       err |-> DocTrackPoints(data).err,
                       pts |-> DocTrackPoints(data).pts,
                       durations |-> IF ReadDoc(data).cls = "TrackV3Timed"
                                     THEN Durations(data) ELSE <<>>]
    /\ UNCHANGED <<op, tracks, data, ti, arm, idx, step, steps, paused_by_file,
                   delay_k, mark, cycle_stop, envVars, play_stop, play_thread,
                   run_time, cmds, checked>>

TrackSpec == TrackInit /\ [][TrackWrite \/ TrackLoad]_vars

\* C13: read_track selects the variant from the stored document only: a
\* mapping tagged "v3.0" loads as sparse-timed (TrackV3Timed, and as no other
\* variant when its entries are malformed), one tagged "v2.0" as dense-timed
\* (TrackV2), a document without a version tag as dense-untimed (TrackV1);
\* loading the same document again yields the same variant.
C13_VariantFromDocument ==
    /\ [](pc = "loaded" =>
            /\ data.version = "v3.0" =>
                   IF \A i \in 1..Len(data.points) :
                          "duration" \in DOMAIN data.points[i]
                   THEN result.cls = "TrackV3Timed"
                   ELSE result.cls = "none" /\ result.err = "ValueError"
            /\ data.version = "v2.0" => result.cls = "TrackV2"
            /\ data.version \in {"none", "absent"} => result.cls = "TrackV1")
    /\ [][(pc = "loaded" /\ data' = data) => result'.cls = result.cls]_vars

C13_Witness ==
    /\ pc = "loaded" /\ data.version = "v3.0" /\ Len(data.points) = 2
    /\ result.cls = "TrackV3Timed" /\ Len(result.pts) = 2

C15_UnknownTagIsFatal ==
    (pc = "loaded" /\ data.version = "v9.9")
    => (result.cls = "none" /\ result.err # "ok")

\* C16: write_from_points with N points and N durations, then read_track,
\* yields a sparse-timed track of exactly N points with the written poses and
\* durations in the written order; with lists of different lengths
\* write_from_points raises and leaves the file as it was.
C16_TimedRoundTrip ==
    /\ []((op = "write" /\ pc = "loaded" /\ Len(tracks[1]) = Len(tracks[2]))
          => /\ result.cls = "TrackV3Timed" /\ result.err = "ok"
             /\ Len(result.pts) = Len(tracks[1])
             /\ Len(result.durations) = Len(tracks[1])
             /\ \A i \in 1..Len(tracks[1]) :
                    /\ result.pts[i].coordinates = tracks[1][i]
                    /\ FSub(result.durations[i], tracks[2][i]).m = <<>>)
    /\ [][(op = "none" /\ op' = "write" /\ Len(tracks'[1]) # Len(tracks'[2]))
          => (data' = data /\ result'.err = "ValueError")]_vars

C16_Witness ==
    /\ op = "write" /\ pc = "loaded" /\ Len(tracks[1]) = 2 /\ Len(tracks[2]) = 2
    /\ result.err = "ok"
    /\ FSub(result.durations[2], FDivInt(5, 100)).m = <<>>

\* C17: telemetry is optional for a dense-timed track: a "v2.0" document with
\* well-formed points and no (or an empty) sidecar loads, yielding one
\* TrackPoint per stored point with the stored pose and timestamp.
C17_TelemetryOptional ==
    ( /\ pc = "loaded" /\ data.version = "v2.0" /\ data.details = <<>>
      /\ \A i \in 1..Len(data.points) : "ts" \in DOMAIN data.points[i] )
    => /\ result.err = "ok" /\ Len(result.pts) = Len(data.points)
       /\ \A i \in 1..Len(data.points) :
              /\ result.pts[i].coordinates = data.points[i].pt
              /\ result.pts[i].coordinates_timestamp = data.points[i].ts


\* ------------------------------------------------------ recording sessions
\* the recording commands alone, with a number of commands large enough for
\* one recording to be requested while another is active

MaxRecCmds == 3

\* the operator's next line at the prompt, or the recording thread's next step
RecordSpec ==
    Init /\ [][\/ \E name \in RecordArgs : CmdRecord(name, MaxRecCmds)
               \/ \E name \in RecordArgs : CmdRecordV2(name, MaxRecCmds)
               \/ CmdR0Track(MaxRecCmds)
               \/ RecWorkerStart
               \/ CmdS
               \/ RecWorkerEnd
               \/ StopRecordJoined
               \/ StopHybridRecording]_vars

\* C19: at any time at most one recording session is active on the terminal,
\* whatever its kind: the recording thread (continuous or safe-track) and the
\* discrete control-point recording are never active together.
C19_OneRecordingAtATime == ~(rec.mode # "none" /\ rec.hybrid)

\* C20: when the file of the requested name exists and the answer to the
\* overwrite question is anything but 'y' (another answer, end of input or an
\* interrupt), a request to start a recording sends no command to either arm,
\* starts no recording thread and no discrete recording, and writes no file.
C20_DeclinedHasNoEffect ==
    [][(/\ op' \in {"record", "record_v2"}
        /\ ncmd' # ncmd
        /\ Exists(tracks'[1])
        /\ rec'.answer \in {"n", "eof"})
       => /\ cmds' = cmds
          /\ [rec' EXCEPT !.answer = rec.answer] = rec]_vars

\* the operator has declined to overwrite an existing track
C20_Witness ==
    /\ op \in {"record", "record_v2"} /\ result = "declined"
    /\ tracks = <<RB>> /\ rec.answer \in {"n", "eof"}
    /\ rec.mode = "none" /\ ~rec.hybrid

\* ------------------------------------------------------------- _rec_worker
\* One continuous recording of LM on the left arm, from the start of the
\* thread to its end, and the operator's "s".  data is the worker's list of
\* poses, tracks its list of telemetry entries, checked the readings the
\* hardware has given so far (in sampling order), run_time the clock in
\* milliseconds, idx the number of loop iterations, result the document that
\* write_from_record has stored (an empty list before).  rec.stage is where the thread is:
\* "starting", "sampling", "failed" (an exception left the loop), "writing";
\* op becomes "raised" when an exception has left the loop.
MaxSamples == 3
RecHz == 50

Readings == {ZeroPose, P1, P2}

\* a test that lets every reading pass as valid
AllZeroNever(pt) == FALSE

\* line 639: all(v == 0 for v in curr_point)
AllZero(pt) == \A j \in 1..Len(pt) : pt[j] = 0

\* TrackV2.write_from_record, lines 255-271
WriteFromRecord(points_with_ts, details) ==
    [version |-> "v2.0",
     points |-> [i \in 1..Len(points_with_ts) |->
                   DenseEntry(points_with_ts[i][1], points_with_ts[i][2])],
     details |-> details]

\* cmd_record has started the thread (lines 571-577)
RecWorkerInit ==
    /\ pc = "idle" /\ op = "record" /\ tracks = <<>> /\ data = <<>>
    /\ checked = <<>> /\ run_time = 0 /\ idx = 0
    /\ result = [version |-> "none", points |-> <<>>, details |-> <<>>]
    /\ rec = [NoRecording EXCEPT !.mode = "dense", !.name = LM,
                                 !.stage = "starting"]
    /\ arm = "left" /\ arm_pose \in {[a \in Arms |-> P1]}
    /\ ti = 0 /\ step = 0 /\ steps = 0 /\ mark = 0
    /\ paused_by_file = FALSE /\ delay_k = 0 /\ play_stop = TRUE
    /\ play_thread = "none" /\ sp = "idle" /\ pause_file = "0" /\ pwrites = 0
    /\ cmds = [a \in Arms |-> <<>>] /\ zero_tracks = TRUE
    /\ cycle_stop = FALSE /\ ncmd = 1

\* one iteration of the loop, lines 625-736: the reading; an all-zero
\* reading is skipped; otherwise the pose is appended, then the telemetry is
\* read and appended.  A hardware call that raises leaves the loop: the read
\* of the joints before anything is appended, the read of the telemetry
\* after the pose was appended.
RecSample ==
    /\ rec.mode = "dense" /\ rec.stage = "sampling" /\ ~rec.stop
    /\ idx < MaxSamples
    /\ idx' = idx + 1
    /\ \E r \in Readings, out \in {"ok", "read_raises", "telemetry_raises"} :
         CASE out = "read_raises" ->
                /\ rec' = [rec EXCEPT !.stage = "failed"] /\ op' = "raised"
                /\ UNCHANGED <<data, tracks, checked, run_time>>
           [] out = "ok" /\ AllZero(r) ->
                /\ checked' = Append(checked, r)
                /\ run_time' = run_time + 1000 \div RecHz
                /\ UNCHANGED <<data, tracks, rec, op>>
           [] out = "ok" /\ ~AllZero(r) ->
                /\ checked' = Append(checked, r)
                /\ data' = Append(data, r)
                /\ tracks' = Append(tracks, Telemetry(run_time))
                /\ run_time' = run_time + 1000 \div RecHz
                /\ UNCHANGED <<rec, op>>
           [] out = "telemetry_raises" /\ ~AllZero(r) ->
                /\ checked' = Append(checked, r)
                /\ data' = Append(data, r)
                /\ rec' = [rec EXCEPT !.stage = "failed"] /\ op' = "raised"
                /\ UNCHANGED <<tracks, run_time>>
           [] OTHER -> FALSE
    /\ UNCHANGED <<pc, ti, arm, step, steps, paused_by_file, delay_k, mark,
                   cycle_stop, sp, pause_file, pwrites, arm_pose, zero_tracks,
                   ncmd, play_stop, play_thread, cmds, result>>

\* the loop ends (line 625 sees _rec_stop, or an exception), the finally
\* block begins: _finalize_record, line 739
RecFinalize ==
    /\ rec.mode = "dense"
    /\ \/ rec.stage = "sampling" /\ rec.stop
       \/ rec.stage = "failed"
    /\ cmds' = [cmds EXCEPT ![RecArm] = FinalizeRecord(@)]
    /\ rec' = [rec EXCEPT !.stage = "writing"]
    /\ UNCHANGED <<pc, op, tracks, loopVars, sp, pause_file, pwrites, arm_pose,
                   zero_tracks, ncmd, play_stop, play_thread, run_time, result,
                   checked>>

\* lines 741-757: zip(data, details), write_from_record; the thread ends
RecWrite ==
    /\ rec.mode = "dense" /\ rec.stage = "writing"
    /\ LET n == IF Len(data) < Len(tracks) THEN Len(data) ELSE Len(tracks)
           points_ts == [i \in 1..n |-> <<data[i], tracks[i].ts>>]
       IN  result' = WriteFromRecord(points_ts, tracks)
    /\ rec' = [rec EXCEPT !.mode = "none", !.stage = "none",
                          !.written = @ \cup {rec.name}]
    /\ UNCHANGED <<pc, op, tracks, loopVars, sp, pause_file, pwrites, arm_pose,
                   zero_tracks, ncmd, play_stop, play_thread, run_time, cmds,
                   checked>>

RecWorkerSpec ==
    RecWorkerInit /\ [][\/ RecWorkerStart \/ RecSample \/ RecFinalize
                        \/ RecWrite \/ CmdS \/ StopRecordJoined]_vars

\* the thread, once its loop has ended, runs its finally block to the end
RecWorkerFairSpec ==
    RecWorkerSpec /\ WF_vars(RecFinalize) /\ WF_vars(RecWrite)

\* the poses of the stored document, in order
StoredPoses == [i \in 1..Len(result.points) |-> result.points[i].pt]

\* the readings sampled that are not all zeros, in sampling order
ValidReadings == SelectSeq(checked, LAMBDA r : r # ZeroPose)

\* C21: in a continuous recording an all-zero reading does not end the
\* sampling and is not appended; the track saved by a recording that was
\* stopped holds exactly the readings that were not all zeros, in sampling
\* order; whatever ended the loop, no all-zero pose is saved, the saved poses
\* are a prefix of those readings, and there are as many poses as telemetry
\* entries.
C21_ZeroReadingsDropped ==
    /\ [][checked' = Append(checked, ZeroPose)
          => rec'.stage = "sampling" /\ data' = data /\ tracks' = tracks]_vars
    /\ [](LM \in rec.written
          => /\ Len(result.points) = Len(result.details)
             /\ \A i \in 1..Len(result.points) : StoredPoses[i] # ZeroPose
             /\ Len(StoredPoses) <= Len(ValidReadings)
             /\ StoredPoses = SubSeq(ValidReadings, 1, Len(StoredPoses))
             /\ op # "raised" => StoredPoses = ValidReadings)

C21_Witness ==
    /\ LM \in rec.written /\ op # "raised"
    /\ checked = <<P1, ZeroPose, P2>>
    /\ StoredPoses = <<P1, P2>> /\ Len(result.details) = 2

\* teach mode of the left arm is off: the last drag-teach command sent is 0x02
TeachOff ==
    LET t == SelectSeq(cmds["left"], LAMBDA c : c.k = "teach")
    IN  t # <<>> /\ t[Len(t)] = TeachCmd(2)

\* C22: a continuous recording that has put the arm into teach mode and
\* whose stop signal is set, or whose sampling loop has failed, eventually
\* has taken the arm out of teach mode and stored its buffer as the track
\* file; and cmd_s returns only when both have happened.
C22_StopFinalizesAndSaves ==
    /\ ((rec.mode = "dense" /\ rec.stage \in {"sampling", "failed"}
         /\ (rec.stop \/ rec.stage = "failed"))
        ~> (TeachOff /\ LM \in rec.written))
    /\ [][(pc = "s_join" /\ pc' = "idle")
          => (TeachOff /\ LM \in rec.written)]_vars

C22_Witness ==
    /\ pc = "idle" /\ rec.stop /\ rec.mode = "none" /\ op # "raised"
    /\ TeachOff /\ LM \in rec.written /\ Len(result.points) = 2

\* ------------------------------------------------------- discrete recording
\* The operator's lines while no recording thread runs: "r2 <name>", and,
\* while the discrete recording is active, the lines that the prompt hands to
\* _handle_hybrid_input.  data is _hybrid_points, checked _hybrid_durations,
\* mark _default_point_duration, tracks the line, result what became of it,
\* run_time the document the last stop has written.
MaxLines == 4

HybridLines == {<<>>, <<"1.5">>, <<"0">>, <<"-1">>, <<"abc">>, <<"s">>,
                <<"default", "2">>, <<"default", "-1">>, <<"p", "2">>}

\* float(s) for the tokens above: the value, or the ValueError
FloatOfString(s) ==
    CASE s = "0" -> FFromInt(0)
      [] s = "2" -> FFromInt(2)
      [] s = "1.5" -> FDivInt(3, 2)
      [] s = "-1" -> FFromInt(-1)
      [] OTHER -> [err |-> "ValueError"]

\* a test that lets a negative duration pass
DurationAcceptedNegative(x) == "err" \notin DOMAIN x

\* lines 1366-1372: float() has succeeded and the value is not negative
DurationAccepted(x) == "err" \notin DOMAIN x /\ ~(x.neg /\ x.m # <<>>)

HybridInit ==
    /\ pc = "idle" /\ op = "none" /\ tracks = <<>> /\ data = <<>>
    /\ checked = <<>> /\ mark = FFromInt(1) /\ result = "none"
    /\ run_time = [version |-> "none", points |-> <<>>, details |-> <<>>]
    /\ rec = NoRecording /\ ncmd = 0 /\ arm = "none"
    /\ arm_pose \in {[a \in Arms |-> P1]}
    /\ ti = 0 /\ idx = 0 /\ step = 0 /\ steps = 0
    /\ paused_by_file = FALSE /\ delay_k = 0 /\ play_stop = TRUE
    /\ play_thread = "none" /\ sp = "idle" /\ pause_file = "0" /\ pwrites = 0
    /\ cmds = [a \in Arms |-> <<>>] /\ zero_tracks = TRUE
    /\ cycle_stop = FALSE

\* _hybrid_add_point, lines 1362-1380, given float(duration_str); the pose
\* is what _current_point returns, the hand having moved the arm meanwhile
HybridAddPoint(x) ==
    /\ pc = "idle" /\ ncmd < MaxLines
    /\ ncmd' = ncmd + 1
    /\ IF ~rec.hybrid
       THEN result' = "not_recording" /\ UNCHANGED <<data, checked, arm_pose>>
       ELSE IF ~DurationAccepted(x)
       THEN result' = "rejected" /\ UNCHANGED <<data, checked, arm_pose>>
       ELSE \E pt \in {P1, P2} :
              /\ arm_pose' = [arm_pose EXCEPT ![ArmFromName(rec.hname)] = pt]
              /\ data' = Append(data, pt)
              /\ checked' = Append(checked, x)
              /\ result' = "added"
    /\ UNCHANGED <<pc, ti, arm, idx, step, steps, paused_by_file, delay_k,
                   mark, cycle_stop, sp, pause_file, pwrites, zero_tracks, rec,
                   play_stop, play_thread, run_time, cmds>>

\* _stop_hybrid_recording, lines 1542-1561, with the buffers
HybridStop ==
    /\ pc = "idle" /\ ncmd < MaxLines /\ rec.hybrid
    /\ ncmd' = ncmd + 1
    /\ cmds' = [cmds EXCEPT ![ArmFromName(rec.hname)] = FinalizeRecord(@)]
    /\ run_time' = WriteFromPoints(run_time, data, checked).doc
    /\ rec' = [rec EXCEPT !.hybrid = FALSE, !.hname = <<>>,
                          !.written = @ \cup {rec.hname}]
    /\ data' = <<>> /\ checked' = <<>>
    /\ result' = "stopped"
    /\ UNCHANGED <<pc, ti, arm, idx, step, steps, paused_by_file, delay_k,
                   mark, cycle_stop, sp, pause_file, pwrites, arm_pose,
                   zero_tracks, play_stop, play_thread>>

\* repl, lines 1240-1247, and _handle_hybrid_input, lines 1563-1605
HybridInput(line) ==
    /\ rec.hybrid
    /\ op' = "input" /\ tracks' = line
    /\ CASE line = <<>> -> HybridAddPoint(mark)
         [] Len(line) = 2 /\ line[1] = "default" ->
              /\ pc = "idle" /\ ncmd < MaxLines
              /\ ncmd' = ncmd + 1
              /\ IF DurationAccepted(FloatOfString(line[2]))
                 THEN mark' = FloatOfString(line[2]) /\ result' = "default"
                 ELSE result' = "rejected" /\ UNCHANGED mark
              /\ UNCHANGED <<pc, ti, arm, data, idx, step, steps,
                             paused_by_file, delay_k, cycle_stop, sp,
                             pause_file, pwrites, arm_pose, zero_tracks, rec,
                             play_stop, play_thread, run_time, cmds, checked>>
         [] line = <<"s">> -> HybridStop
         [] Len(line) = 1 /\ line # <<"s">>
            /\ "err" \notin DOMAIN FloatOfString(line[1]) ->
              HybridAddPoint(FloatOfString(line[1]))
         [] OTHER ->
              /\ pc = "idle" /\ ncmd < MaxLines
              /\ ncmd' = ncmd + 1
              /\ result' = "unknown"
              /\ UNCHANGED <<pc, loopVars, sp, pause_file, pwrites,
                             arm_pose, zero_tracks, rec, play_stop,
                             play_thread, run_time, cmds, checked>>

HybridSpec ==
    HybridInit /\ [][\/ \E name \in RecordArgs : CmdRecordV2(name, MaxLines)
                     \/ \E line \in HybridLines : HybridInput(line)
                     \/ /\ ~rec.hybrid /\ op' = "add_point" /\ tracks' = <<"1.5">>
                        /\ HybridAddPoint(FloatOfString("1.5"))]_vars

\* C23: during a discrete recording the list of poses and the list of
\* durations have the same length; a confirm that is accepted appends one
\* pose and one duration; a confirm with a negative or a non-numeric
\* duration, or one made while no discrete recording is active, changes
\* neither list.
C23_BuffersInStep ==
    /\ [](Len(data) = Len(checked))
    /\ [][(ncmd' # ncmd /\ op' \in {"input", "add_point"})
          => /\ result' = "added"
                => /\ Len(data') = Len(data) + 1
                   /\ Len(checked') = Len(checked) + 1
                   /\ SubSeq(data', 1, Len(data)) = data
                   /\ SubSeq(checked', 1, Len(checked)) = checked
             /\ (tracks' \in {<<"-1">>, <<"abc">>} \/ ~rec.hybrid)
                => data' = data /\ checked' = checked]_vars

C23_Witness ==
    /\ rec.hybrid /\ Len(data) = 2 /\ Len(checked) = 2
    /\ op = "input" /\ tracks = <<"-1">> /\ result = "rejected"

\* ------------------------------------------------------------------ arm_ipc
\* One ArmProxy and its _ArmWorkerProcess.  data is the pipe from the proxy
\* to the worker, tracks the pipe back, idx _req_id, mark the id the caller
\* waits for, pc where the calling thread is ("idle", "wait", "closed"), sp
\* where the worker is ("recv", "stopped"), arm whether PiperTerminal was
\* constructed ("ok") or not ("none"), result the outcome of the last call,
\* checked the outcomes of all calls so far, steps the calls the worker has
\* served, cycle_stop whether a caller has left a call without its reply.
MaxCalls == 3

Methods == {"cmd_get", "cmd_play"}

\* a worker whose reply carries no id
WorkerReplyNoId(term, msg, outcome) ==
    IF term = "none"
    THEN [ok |-> FALSE, error |-> <<"terminal init failed">>, id |-> 0]
    ELSE IF outcome = "returns"
    THEN [ok |-> TRUE, result |-> <<msg.method, msg.id>>, id |-> 0]
    ELSE [ok |-> FALSE, error |-> <<"Exception", msg.method>>, id |-> 0]

\* run, lines 104-120: the reply to a call message; the method returns or
\* raises an Exception
WorkerReply(term, msg, outcome) ==
    IF term = "none"
    THEN [ok |-> FALSE, error |-> <<"terminal init failed">>, id |-> msg.id]
    ELSE IF outcome = "returns"
    THEN [ok |-> TRUE, result |-> <<msg.method, msg.id>>, id |-> msg.id]
    ELSE [ok |-> FALSE, error |-> <<"Exception", msg.method>>, id |-> msg.id]

\* a caller that takes an error reply for a result
CallResultIgnoresError(resp, curr_id) ==
    IF resp.id # curr_id
    THEN [id |-> curr_id, kind |-> "out_of_order", value |-> <<>>]
    ELSE [id |-> curr_id, kind |-> "returned",
          value |-> IF resp.ok THEN resp.result ELSE <<>>]

\* a caller that does not compare the ids
CallResultIgnoresId(resp, curr_id) ==
    IF resp.ok
    THEN [id |-> curr_id, kind |-> "returned", value |-> resp.result]
    ELSE [id |-> curr_id, kind |-> "worker_error", value |-> resp.error]

\* _send_call, lines 173-177: what the call does with the reply received
CallResult(resp, curr_id) ==
    IF resp.id # curr_id
    THEN [id |-> curr_id, kind |-> "out_of_order", value |-> <<>>]
    ELSE IF resp.ok
    THEN [id |-> curr_id, kind |-> "returned", value |-> resp.result]
    ELSE [id |-> curr_id, kind |-> "worker_error", value |-> resp.error]

ipcFrame == <<op, ti, step, paused_by_file, delay_k, play_stop, play_thread,
              pause_file, pwrites, run_time, cmds, arm_pose, zero_tracks, rec,
              ncmd>>

\* ArmProxy.__init__, lines 151-155, and run, lines 73-86
IpcInit ==
    /\ pc = "idle" /\ sp = "recv" /\ arm \in {"ok", "none"}
    /\ data = <<>> /\ tracks = <<>> /\ idx = 0 /\ mark = 0
    /\ result = [id |-> 0, kind |-> "none", value |-> <<>>]
    /\ checked = <<>> /\ steps = <<>> /\ cycle_stop = FALSE
    /\ op = "ipc" /\ ti = 0 /\ step = 0 /\ paused_by_file = FALSE
    /\ delay_k = 0 /\ play_stop = TRUE /\ play_thread = "none"
    /\ pause_file = "0" /\ pwrites = 0 /\ run_time = 0
    /\ cmds = [a \in Arms |-> <<>>] /\ arm_pose = [a \in Arms |-> P1]
    /\ zero_tracks = TRUE /\ rec = NoRecording /\ ncmd = 0

\* _send_call, lines 163-171
SendCall(method) ==
    /\ pc = "idle" /\ idx < MaxCalls
    /\ idx' = idx + 1 /\ mark' = idx + 1
    /\ data' = Append(data, [cmd |-> "call", method |-> method, id |-> idx + 1])
    /\ pc' = "wait"
    /\ UNCHANGED <<sp, arm, tracks, result, checked, steps, cycle_stop, ipcFrame>>

\* _send_call, lines 172-177: recv, then the result or the RuntimeError
RecvReply ==
    /\ pc = "wait" /\ tracks # <<>>
    /\ tracks' = Tail(tracks)
    /\ result' = CallResult(Head(tracks), mark)
    /\ checked' = Append(checked, [call |-> CallResult(Head(tracks), mark),
                                   reply |-> Head(tracks)])
    /\ pc' = "idle"
    /\ UNCHANGED <<sp, arm, data, idx, mark, steps, cycle_stop, ipcFrame>>

\* line 172: the calling thread is interrupted in recv (KeyboardInterrupt)
\* and later calls again
AbandonCall ==
    /\ pc = "wait"
    /\ pc' = "idle" /\ cycle_stop' = TRUE
    /\ UNCHANGED <<sp, arm, data, tracks, idx, mark, result, checked, steps,
                   ipcFrame>>

\* shutdown, lines 180-188
SendShutdown ==
    /\ pc = "idle" /\ sp = "recv"
    /\ data' = Append(data, [cmd |-> "shutdown"])
    /\ pc' = "closed"
    /\ UNCHANGED <<sp, arm, tracks, idx, mark, result, checked, steps,
                   cycle_stop, ipcFrame>>

\* run, lines 88-122: one message received and served
WorkerServe ==
    /\ sp = "recv" /\ data # <<>>
    /\ data' = Tail(data)
    /\ IF Head(data).cmd = "shutdown"
       THEN sp' = "stopped" /\ UNCHANGED <<tracks, steps>>
       ELSE \E outcome \in {"returns", "raises"} :
              /\ tracks' = Append(tracks, WorkerReply(arm, Head(data), outcome))
              /\ steps' = Append(steps, [id |-> Head(data).id, raised |-> arm = "ok" /\ outcome = "raises"])
              /\ sp' = "recv"
    /\ UNCHANGED <<pc, arm, idx, mark, result, checked, cycle_stop, ipcFrame>>

IpcSpec ==
    IpcInit /\ [][\/ \E method \in Methods : SendCall(method)
                  \/ RecvReply \/ AbandonCall \/ SendShutdown
                  \/ WorkerServe]_vars

\* the worker process runs, and a reply that has arrived is received
IpcFairSpec == IpcSpec /\ WF_vars(WorkerServe) /\ WF_vars(RecvReply)

\* C24: the worker answers every call message with exactly one reply that
\* carries the id of the call, in the order of the calls, also when the
\* terminal could not be constructed; a caller that makes its calls one after
\* another, each waited for, leaves the wait only with a reply, and that
\* reply has the id of its call; and every call sent is answered.
C24_OneReplyPerCall ==
    /\ [][(data # <<>> /\ data' = Tail(data) /\ Head(data).cmd = "call")
          => /\ Len(tracks') = Len(tracks) + 1
             /\ SubSeq(tracks', 1, Len(tracks)) = tracks
             /\ tracks'[Len(tracks')].id = Head(data).id]_vars
    /\ [](\A i \in 1..Len(steps) : steps[i].id = i)
    /\ [][(pc = "wait" /\ pc' = "idle" /\ ~cycle_stop')
          => tracks # <<>> /\ tracks' = Tail(tracks)]_vars
    /\ [](~cycle_stop
          => \A i \in 1..Len(checked) :
                 /\ checked[i].reply.id = checked[i].call.id
                 /\ checked[i].call.kind # "out_of_order")
    /\ \A i \in 1..MaxCalls : (idx >= i) ~> (Len(steps) >= i)

C24_Witness ==
    /\ arm = "none" /\ ~cycle_stop /\ Len(checked) = 2
    /\ result.id = 2 /\ result.kind = "worker_error"
    /\ checked[2].reply.id = 2

\* C25: an exception raised by the method of a call does not end the worker:
\* the worker replies ok=false with the description of the error and goes on
\* receiving, the caller that receives this reply raises an error that
\* carries the description, and the call sent after it is served.
C25_WorkerSurvivesException ==
    /\ [][(Len(steps') > Len(steps) /\ steps'[Len(steps')].raised)
          => /\ sp' = "recv"
             /\ ~tracks'[Len(tracks')].ok
             /\ tracks'[Len(tracks')].error
                = <<"Exception", Head(data).method>>]_vars
    /\ [](\A i \in 1..Len(checked) :
              (checked[i].reply.id = checked[i].call.id /\ ~checked[i].reply.ok)
              => /\ checked[i].call.kind = "worker_error"
                 /\ checked[i].call.value = checked[i].reply.error)
    /\ \A i \in 2..MaxCalls :
           (idx >= i /\ Len(steps) >= i - 1 /\ steps[i - 1].raised)
           ~> (Len(steps) >= i)

C25_Witness ==
    /\ arm = "ok" /\ ~cycle_stop /\ Len(checked) = 2
    /\ Len(steps) = 2 /\ steps[1].raised /\ ~steps[2].raised
    /\ checked[1].call.kind = "worker_error"
    /\ checked[2].call.kind = "returned"

\* C26: a reply whose id is not the id of the call that receives it makes
\* the call raise an error; the call returns nothing of that reply.
C26_OutOfOrderIsFatal ==
    \A i \in 1..Len(checked) :
        checked[i].reply.id # checked[i].call.id
        => /\ checked[i].call.kind = "out_of_order"
           /\ checked[i].call.value = <<>>

C26_Witness ==
    /\ Len(checked) = 1 /\ checked[1].call.id = 2 /\ checked[1].reply.id = 1
    /\ checked[1].reply.ok /\ result.kind = "out_of_order"

\* ================================================================= scenes
\* scene.py and cmd_scene_add / cmd_scene_play.  A scene is two timelines of
\* elements, one per arm label; each element is a track name or a pause.
\* In this specification data is the scene collected by cmd_scene_add,
\* tracks the scene files written, pc / idx / arm / result are per timeline
\* worker, and checked is, per worker, the track elements it has reached
\* with the number of commands each of them sent.
TrackEl(name) == [type |-> "track", name |-> name]
PauseEl == [type |-> "pause", name |-> <<>>]

\* the timelines typed in: tracks that exist (dense, empty, timed), a name
\* without a file (LM) and pauses
SceneTimelines ==
    {<<>>, <<PauseEl>>, <<TrackEl(LA)>>, <<TrackEl(LM)>>, <<TrackEl(LZ)>>,
     <<TrackEl(LO)>>, <<TrackEl(LE), TrackEl(LA)>>,
     <<TrackEl(LA), TrackEl(LM)>>, <<TrackEl(LM), TrackEl(LA)>>,
     <<PauseEl, TrackEl(LM)>>, <<TrackEl(LA), PauseEl>>,
     <<TrackEl(RB), TrackEl(LM)>>, <<TrackEl(RB)>>, <<TrackEl(WAVE)>>}

\* a worker that swallows the failure of read_track and goes on: the fault
\* C27 must exclude
SceneTrackSkipsMissing(log, pose, name) ==
    IF ReadTrack(name).err # "ok" THEN [err |-> "ok", log |-> log]
    ELSE IF ReadTrack(name).cls = "TrackV3Timed"
    THEN [err |-> "ok",
          log |-> IF Len(Disk[name].points) = 0 THEN log
                  ELSE LoopEpilogue(MoveSmooth(PrepareTrackPlay(log), pose,
                                               Disk[name].points[1].pt))]
    ELSE IF Load(name).err # "ok" THEN [err |-> Load(name).err, log |-> log]
    ELSE IF Load(name).pts = <<>>
    THEN [err |-> "IndexError", log |-> PrepareTrackPlay(log)]
    ELSE LET pts == Load(name).pts
         IN  [err |-> "ok",
              log |-> LoopEpilogue(
                        PrepareTrackPlay(log)
                        \o [i \in 1..Len(pts) |->
                              PoseCmd(EffectiveTarget(pts[i].coordinates),
                                      pts[i].coordinates_timestamp
                                      - pts[1].coordinates_timestamp)])]

\* _worker of cmd_scene_play, lines 1745-1751, one track element: read_track,
\* then _run_timed_track (no point: nothing; one point: the glide) or
\* _run_track on track_points.  The exception that ends the worker, or "ok",
\* and the log of the arm afterwards.
SceneTrack(log, pose, name) ==
    IF ReadTrack(name).err # "ok" THEN [err |-> ReadTrack(name).err, log |-> log]
    ELSE IF ReadTrack(name).cls = "TrackV3Timed"
    THEN [err |-> "ok",
          log |-> IF Len(Disk[name].points) = 0 THEN log
                  ELSE LoopEpilogue(MoveSmooth(PrepareTrackPlay(log), pose,
                                               Disk[name].points[1].pt))]
    ELSE IF Load(name).err # "ok" THEN [err |-> Load(name).err, log |-> log]
    ELSE IF Load(name).pts = <<>>
    THEN [err |-> "IndexError", log |-> PrepareTrackPlay(log)]
    ELSE LET pts == Load(name).pts
         IN  [err |-> "ok",
              log |-> LoopEpilogue(
                        PrepareTrackPlay(log)
                        \o [i \in 1..Len(pts) |->
                              PoseCmd(EffectiveTarget(pts[i].coordinates),
                                      pts[i].coordinates_timestamp
                                      - pts[1].coordinates_timestamp)])]

sceneFrame == <<ti, step, steps, paused_by_file, delay_k, play_thread, sp,
                pause_file, pwrites, run_time, arm_pose, zero_tracks, mark,
                cycle_stop, rec, ncmd>>

\* cmd_scene_add, lines 1654-1685: the two timelines have been typed in
SceneInit ==
    /\ op = "scene_add"
    /\ data \in [left : SceneTimelines, right : SceneTimelines]
    /\ tracks = <<>>
    /\ pc = [a \in Arms |-> "idle"] /\ idx = [a \in Arms |-> 0]
    /\ arm = [a \in Arms |-> "none"]
    /\ result = [a \in Arms |-> "none"]
    /\ checked = [a \in Arms |-> <<>>]
    /\ cmds = [a \in Arms |-> <<>>]
    /\ arm_pose = [a \in Arms |-> ZeroPose]
    /\ play_stop = TRUE /\ play_thread = "none" /\ sp = "idle"
    /\ ti = 0 /\ step = 0 /\ steps = 0 /\ paused_by_file = FALSE
    /\ delay_k = 0 /\ pause_file = "0" /\ pwrites = 0 /\ run_time = 0
    /\ zero_tracks = FALSE /\ mark = 0 /\ cycle_stop = FALSE
    /\ rec = NoRecording /\ ncmd = 0

\* Scene.save, lines 58-59, called at line 1687: the timelines are written
\* as they are
SceneSave ==
    /\ op = "scene_add"
    /\ tracks' = Append(tracks, data)
    /\ op' = "saved"
    /\ UNCHANGED <<pc, idx, arm, data, result, checked, cmds, play_stop,
                   sceneFrame>>

\* cmd_scene_play, lines 1716-1722 and 1753-1756: the scene is loaded, the
\* stop flag cleared, the two workers started
ScenePlay ==
    /\ op = "saved"
    /\ data' = tracks[1]
    /\ play_stop' = FALSE
    /\ pc' = [a \in Arms |-> "worker"]
    /\ op' = "scene_play"
    /\ UNCHANGED <<tracks, idx, arm, result, checked, cmds, sceneFrame>>

\* _worker, lines 1726-1737: nothing to do without a track element; the arm
\* is the arm of the first track element's name; the pre-flight check
SceneWorkerStart(a) ==
    /\ op = "scene_play" /\ pc[a] = "worker"
    /\ LET seq == data[a]
           firsts == {i \in 1..Len(seq) : seq[i].type = "track"}
           first == CHOOSE i \in firsts : \A j \in firsts : i <= j
       IN  IF firsts = {}
           THEN /\ pc' = [pc EXCEPT ![a] = "done"]
                /\ UNCHANGED <<arm, idx, result>>
           ELSE IF ArmFromName(seq[first].name) = "ValueError"
           THEN /\ pc' = [pc EXCEPT ![a] = "died"]
                /\ result' = [result EXCEPT ![a] = "ValueError"]
                /\ UNCHANGED <<arm, idx>>
           ELSE /\ arm' = [arm EXCEPT ![a] = ArmFromName(seq[first].name)]
                /\ idx' = [idx EXCEPT ![a] = 1]
                /\ pc' = [pc EXCEPT ![a] = "elements"]
                /\ UNCHANGED result
    /\ UNCHANGED <<op, tracks, data, checked, cmds, play_stop, sceneFrame>>

\* _worker, lines 1739-1751: one element of the timeline.  An exception of
\* read_track, track_points or _run_track is not caught: it ends the worker
\* thread, which reports it, and the elements after it are not played.
SceneElementStep(a) ==
    /\ op = "scene_play" /\ pc[a] = "elements"
    /\ IF idx[a] > Len(data[a]) \/ play_stop
       THEN /\ pc' = [pc EXCEPT ![a] = "done"]
            /\ UNCHANGED <<idx, result, checked, cmds>>
       ELSE IF data[a][idx[a]].type = "pause"
       THEN /\ idx' = [idx EXCEPT ![a] = @ + 1]
            /\ UNCHANGED <<pc, result, checked, cmds>>
       ELSE LET name == data[a][idx[a]].name
                out == SceneTrack(cmds[arm[a]], arm_pose[arm[a]], name)
            IN  /\ cmds' = [cmds EXCEPT ![arm[a]] = out.log]
                /\ checked' = [checked EXCEPT ![a] =
                                 Append(@, [name |-> name,
                                            sent |-> Len(out.log)
                                                     - Len(cmds[arm[a]])])]
                /\ IF out.err = "ok"
                   THEN /\ idx' = [idx EXCEPT ![a] = @ + 1]
                        /\ UNCHANGED <<pc, result>>
                   ELSE /\ pc' = [pc EXCEPT ![a] = "died"]
                        /\ result' = [result EXCEPT ![a] = out.err]
                        /\ UNCHANGED idx
    /\ UNCHANGED <<op, tracks, data, arm, play_stop, sceneFrame>>

\* cmd_scene_play, lines 1755-1757: both workers joined
SceneJoined ==
    /\ op = "scene_play"
    /\ \A a \in Arms : pc[a] \in {"done", "died"}
    /\ play_stop' = TRUE
    /\ op' = "scene_played"
    /\ UNCHANGED <<pc, tracks, data, idx, arm, result, checked, cmds,
                   sceneFrame>>

SceneSpec ==
    SceneInit /\ [][SceneSave \/ ScenePlay \/ SceneJoined
                    \/ \E a \in Arms : SceneWorkerStart(a) \/ SceneElementStep(a)]_vars

\* C27: saving a scene writes it whether or not the tracks it names exist;
\* when a worker of scene play reaches a track element whose track has no
\* file, that step sends no command, the worker ends there with
\* FileNotFoundError as its reported failure, and no element after it is
\* played by this worker.
C27_SceneWeaklyTiedToTracks ==
    /\ [][op = "scene_add" => op' = "saved" /\ tracks' = <<data>>]_vars
    /\ [][\A a \in Arms :
            (Len(checked'[a]) > Len(checked[a])
             /\ checked'[a][Len(checked'[a])].name \notin DOMAIN Disk)
            => /\ cmds' = cmds
               /\ pc'[a] = "died"
               /\ result'[a] = "FileNotFoundError"]_vars
    /\ [](\A a \in Arms : \A i \in 1..Len(checked[a]) :
              checked[a][i].name \notin DOMAIN Disk
              => /\ checked[a][i].sent = 0
                 /\ i = Len(checked[a])
                 /\ result[a] = "FileNotFoundError")

C27_Witness ==
    /\ op = "scene_played"
    /\ tracks = <<[left |-> <<TrackEl(LA), TrackEl(LM)>>,
                   right |-> <<TrackEl(RB)>>]>>
    /\ Len(checked["left"]) = 2 /\ checked["left"][1].sent > 0
    /\ checked["left"][2] = [name |-> LM, sent |-> 0]
    /\ result["left"] = "FileNotFoundError" /\ pc["right"] = "done"

\* ============================================================ pose helpers
\* _max_delta_and_joint_ignored, _is_close_ignored, _send_point and
\* _move_smooth applied to pairs of poses.  In this specification data is
\* the pair <<pt_a, pt_b>>, mark the tolerance of the comparison, result what
\* the two comparisons returned, cmds the log of one arm, and checked the
\* poses the callers handed to _send_point, as they are after the call.
PoseInputs ==
    {ZeroPose, P1, P2, P3, FarPose,
     <<1000, 0, 0, 0, 0, 0, 0>>,
     <<1000, 1000, 0, 0, 0, 0, 0>>,
     <<-1000, 0, 1000, 0, 0, 0, 39>>,
     <<0, 0, 500, 0, 1000, 0, 1>>,
     <<0, 0, 0, 9000, 0, 9000, 70000>>,
     <<0, 0, 0, 7000, 5000, 0, 13>>,
     <<0, 6000, 0, 0, 0, 0, 50000>>,
     <<999, 0, 0, 0, -5001, 0, -40>>}

PoseTolerances == {0, 999, 1000, TOLERANCE_ANGLE_UNITS}

poseFrame == <<pc, tracks, ti, arm, idx, step, steps, paused_by_file, delay_k,
               play_stop, play_thread, sp, pause_file, pwrites, run_time,
               arm_pose, zero_tracks, cycle_stop, rec, ncmd>>

PoseInit ==
    /\ op = "none"
    /\ data \in PoseInputs \X PoseInputs
    /\ mark = 0
    /\ result = [dev |-> <<-1, -1>>, close |-> FALSE]
    /\ cmds = <<>> /\ checked = <<>>
    /\ pc = "idle" /\ tracks = <<>> /\ ti = 0 /\ arm = "left" /\ idx = 0
    /\ step = 0 /\ steps = 0 /\ paused_by_file = FALSE /\ delay_k = 0
    /\ play_stop = TRUE /\ play_thread = "none" /\ sp = "idle"
    /\ pause_file = "0" /\ pwrites = 0 /\ run_time = 0
    /\ arm_pose = [a \in Arms |-> ZeroPose] /\ zero_tracks = FALSE
    /\ cycle_stop = FALSE /\ rec = NoRecording /\ ncmd = 0

\* _max_delta_and_joint_ignored(pt_a, pt_b)
PoseMaxDelta ==
    /\ op = "none"
    /\ result' = [result EXCEPT !.dev = MaxDeltaAndJointIgnored(data[1], data[2])]
    /\ op' = "max_delta"
    /\ UNCHANGED <<data, mark, cmds, checked, poseFrame>>

\* _is_close_ignored(pt_a, pt_b, tol)
PoseIsClose(tol) ==
    /\ op = "none"
    /\ mark' = tol
    /\ result' = [result EXCEPT !.close = IsCloseIgnored(data[1], data[2], tol)]
    /\ op' = "is_close"
    /\ UNCHANGED <<data, cmds, checked, poseFrame>>

\* _run_track, line 1018: _send_point(arm, tp.coordinates); eff = list(pt)
\* at line 1299 copies, so the caller's list is as it was
PoseSendPoint ==
    /\ op = "none"
    /\ cmds' = SendPoint(cmds, data[1], 0)
    /\ checked' = <<data[1]>>
    /\ op' = "send_point"
    /\ UNCHANGED <<data, mark, result, poseFrame>>

\* _move_smooth from pt_a to pt_b, lines 321-332: the poses it builds at
\* line 329 and the commands _send_point makes of them
PoseMoveSmooth ==
    /\ op = "none"
    /\ cmds' = MoveSmooth(cmds, data[1], data[2])
    /\ checked' = [i \in 1..MoveSmoothSteps |->
                     LerpPose(data[1], data[2], MoveSmoothSteps, i - 1)]
    /\ op' = "move_smooth"
    /\ UNCHANGED <<data, mark, result, poseFrame>>

PoseSpec ==
    PoseInit /\ [][PoseMaxDelta \/ PoseSendPoint \/ PoseMoveSmooth
                   \/ \E tol \in PoseTolerances : PoseIsClose(tol)]_vars

\* the joints a comparison looks at, 0-based, and their deviations
ConsideredJoints == (0..6) \ {3, 5, 6}
Deviation(a, b, j) == Abs(a[j + 1] - b[j + 1])

\* C28: for every pair of poses, _max_delta_and_joint_ignored returns the
\* largest |a_i - b_i| over the joints other than 3, 5 and 6, and with it
\* the lowest index of a joint that has this deviation; for a pose compared
\* with itself it returns 0.
C28_MaxDeviation ==
    op = "max_delta"
    => LET a == data[1]
           b == data[2]
       IN  /\ \E j \in ConsideredJoints : result.dev[1] = Deviation(a, b, j)
           /\ \A j \in ConsideredJoints : Deviation(a, b, j) <= result.dev[1]
           /\ result.dev[2] \in ConsideredJoints
           /\ Deviation(a, b, result.dev[2]) = result.dev[1]
           /\ \A j \in ConsideredJoints :
                  j < result.dev[2] => Deviation(a, b, j) < result.dev[1]
           /\ a = b => result.dev[1] = 0

C28_Witness ==
    /\ op = "max_delta"
    /\ data = <<(<<-1000, 0, 1000, 0, 0, 0, 39>>),
                (<<0, 0, 0, 9000, 0, 9000, 70000>>)>>
    /\ result.dev = <<1000, 0>>

\* C29: for every pair of poses and every tolerance, _is_close_ignored is
\* true exactly when each joint other than 3, 5 and 6 differs by at most
\* the tolerance; [1000,0,0,0,0,0,0] is close to the zero pose at 5000 and
\* not close at 999.
C29_IsCloseIffWithinTolerance ==
    op = "is_close"
    => /\ result.close
          <=> \A j \in ConsideredJoints :
                  Deviation(data[1], data[2], j) <= mark
       /\ (data = <<(<<1000, 0, 0, 0, 0, 0, 0>>), ZeroPose>> /\ mark = 5000)
          => result.close
       /\ (data = <<(<<1000, 0, 0, 0, 0, 0, 0>>), ZeroPose>> /\ mark = 999)
          => ~result.close

C29_Witness ==
    /\ op = "is_close" /\ mark = 5000 /\ result.close
    /\ data = <<ZeroPose, (<<0, 0, 0, 7000, 5000, 0, 13>>)>>

\* C30: each pose command that _send_point makes, for a track point or for
\* a pose of a glide, has the 6 joint values of the pose it was given and,
\* as gripper value, g * 925 / 1000 rounded toward zero, g being the
\* gripper value of that pose; the pose given is as it was before the call.
C30_GripperTightened ==
    /\ op \in {"send_point", "move_smooth"}
       => /\ Len(cmds) = Len(checked)
          /\ \A i \in 1..Len(cmds) :
                 LET g == checked[i][7]
                 IN  /\ cmds[i].k = "pose"
                     /\ \A j \in 1..6 : cmds[i].v[j] = checked[i][j]
                     /\ cmds[i].v[7] = IF g >= 0 THEN (g * 925) \div 1000
                                       ELSE 0 - (((0 - g) * 925) \div 1000)
    /\ op = "send_point" => checked = <<data[1]>>
    /\ op = "move_smooth" => checked[1] = data[1]

C30_Witness ==
    /\ op = "move_smooth"
    /\ data = <<P1, (<<0, 0, 0, 9000, 0, 9000, 70000>>)>>
    /\ cmds[1].v = <<1000, 0, 0, 0, 0, 0, 37>>
    /\ cmds[100].v[4] = 8910 /\ cmds[100].v[7] = (checked[100][7] * 925) \div 1000
    /\ checked[100][7] > 60000

\* ==================================================== pre-flight safety check
\* _maybe_reset_from_safe_pose_and_move_to_0 on the files _list_zero_tracks
\* finds.  A safe track file is what json.loads makes of it: unreadable, or
\* the list of poses _rec_worker_safe wrote.  In this specification data is
\* the list of files, tracks the pose _current_point returns, and result
\* the PiperResponse with the nearest deviation found (<<>> for math.inf).
SafeFile(pts) == [readable |-> TRUE, pts |-> pts]
Unreadable == [readable |-> FALSE, pts |-> <<>>]

SafeFiles ==
    {Unreadable, SafeFile(<<>>), SafeFile(<<ZeroPose>>),
     SafeFile(<<FarPose, P1>>), SafeFile(<<P3>>)}

MaxSafeFiles == 2

\* best_delta of lines 357-373: delta < best_delta replaces the best
RECURSIVE BestDelta(_, _, _)
BestDelta(curr, pts, best) ==
    IF pts = <<>> THEN best
    ELSE LET delta == MaxDeltaAndJointIgnored(curr, Head(pts))[1]
         IN  BestDelta(curr, Tail(pts),
                       IF best = <<>> \/ delta < best[1] THEN <<delta>> ELSE best)

RECURSIVE NearestSafePoint(_, _, _)
NearestSafePoint(curr, z_tracks, best) ==
    IF z_tracks = <<>> THEN best
    ELSE NearestSafePoint(curr, Tail(z_tracks),
                          IF Head(z_tracks).readable
                          THEN BestDelta(curr, Head(z_tracks).pts, best)
                          ELSE best)

\* the check with the distance test of lines 375-382 in force: the fault
\* C31 must exclude
MaybeResetFarFails(z_tracks, curr) ==
    IF z_tracks = <<>>
    THEN [ok |-> FALSE, error |-> "no 0 tracks", best |-> <<>>]
    ELSE LET best == NearestSafePoint(curr, z_tracks, <<>>)
         IN  IF best = <<>> \/ best[1] > TOLERANCE_ANGLE_UNITS
             THEN [ok |-> FALSE, error |-> "far from 0 tracks", best |-> best]
             ELSE [ok |-> TRUE, error |-> "none", best |-> best]

\* _maybe_reset_from_safe_pose_and_move_to_0, lines 345-420
MaybeResetFromSafePoseAndMoveTo0(z_tracks, curr) ==
    IF z_tracks = <<>>
    THEN [ok |-> FALSE, error |-> "no 0 tracks", best |-> <<>>]
    ELSE [ok |-> TRUE, error |-> "none",
          best |-> NearestSafePoint(curr, z_tracks, <<>>)]

SafetyInit ==
    /\ op = "none"
    /\ data \in UNION {[1..n -> SafeFiles] : n \in 0..MaxSafeFiles}
    /\ tracks \in PoseInputs
    /\ result = [ok |-> FALSE, error |-> "pending", best |-> <<>>]
    /\ mark = 0 /\ cmds = <<>> /\ checked = <<>>
    /\ pc = "idle" /\ ti = 0 /\ arm = "left" /\ idx = 0
    /\ step = 0 /\ steps = 0 /\ paused_by_file = FALSE /\ delay_k = 0
    /\ play_stop = TRUE /\ play_thread = "none" /\ sp = "idle"
    /\ pause_file = "0" /\ pwrites = 0 /\ run_time = 0
    /\ arm_pose = [a \in Arms |-> ZeroPose] /\ zero_tracks = FALSE
    /\ cycle_stop = FALSE /\ rec = NoRecording /\ ncmd = 0

\* the call at line 833 (cmd_play), 905 (cmd_play_parallel), 1736 (scene)
SafetyCheck ==
    /\ op = "none"
    /\ result' = MaybeResetFromSafePoseAndMoveTo0(data, tracks)
    /\ op' = "safety"
    /\ UNCHANGED <<data, tracks, mark, cmds, checked, poseFrame>>

SafetySpec == SafetyInit /\ [][SafetyCheck]_vars

\* C31: the pre-flight check answers ok=false only when there is no safe
\* track file, and then with the error 'no 0 tracks'; with one file or more
\* it answers ok=true, whether the nearest safe point is within the
\* tolerance, beyond it, or absent because no file could be read.
C31_NeverFailsOnDistance ==
    op = "safety"
    => /\ result.ok <=> data # <<>>
       /\ ~result.ok => result.error = "no 0 tracks"

C31_Witness ==
    /\ op = "safety" /\ result.ok
    /\ data = <<Unreadable, SafeFile(<<FarPose, P1>>)>>
    /\ tracks = <<0, 6000, 0, 0, 0, 0, 50000>>
    /\ result.best = <<6000>>

\* ------------------------------------------------- one-point sparse tracks
\* C32: when _run_timed_track has played a track of exactly one point, the
\* arm's log ends with the poses of a glide followed by the disengage
\* command (0, 0), the glide was preceded by the engage command, and the
\* last pose commanded is the single point of the track.
C32_OnePointReachesPoint ==
    (op = "play_v2" /\ pc = "play2_after" /\ Len(data) = 1)
    => LET log == cmds[arm]
       IN  /\ Len(log) >= mark + MoveSmoothSteps + 1
           /\ log[mark] = Engage
           /\ log[Len(log)] = Disengage
           /\ log[Len(log) - 1].k = "pose"
           /\ log[Len(log) - 1].v = data[1].pt

\* -------------------------------------------- the end of a discrete recording
\* C33: the step that stops a discrete recording sends the teach-off command
\* to the arm of the recording, writes under the recording's name a v3.0
\* document whose entries are the confirmed poses with their durations, pair
\* by pair in the order of confirmation, and leaves the engine not recording
\* with both buffers empty; the buffers are empty whenever no discrete
\* recording is active, so the next recording starts with none.
C33_StopPersistsPairs ==
    /\ [][(rec.hybrid /\ ~rec'.hybrid)
          => LET a == ArmFromName(rec.hname)
                 sent == SubSeq(cmds'[a], Len(cmds[a]) + 1, Len(cmds'[a]))
             IN  /\ TeachCmd(2) \in {sent[i] : i \in 1..Len(sent)}
                 /\ \A i \in 1..Len(sent) : sent[i].k # "teach" \/ sent[i] = TeachCmd(2)
                 /\ rec.hname \in rec'.written
                 /\ run_time'.version = "v3.0"
                 /\ Len(run_time'.points) = Len(data)
                 /\ \A i \in 1..Len(data) :
                        /\ run_time'.points[i].pt = data[i]
                        /\ FSub(FDivInt(run_time'.points[i].duration.n,
                                        run_time'.points[i].duration.d),
                                checked[i]).m = <<>>
                 /\ data' = <<>> /\ checked' = <<>>]_vars
    /\ [](~rec.hybrid => data = <<>> /\ checked = <<>>)

C33_Witness ==
    /\ ~rec.hybrid /\ result = "stopped" /\ LM \in rec.written
    /\ run_time.version = "v3.0" /\ Len(run_time.points) = 2
    /\ run_time.points[1] = [pt |-> P1, duration |-> Dec(15, 10)]
    /\ run_time.points[2] = [pt |-> P2, duration |-> Dec(0, 1)]
    /\ data = <<>> /\ checked = <<>>

\* ------------------------------------------------ several tracks in one play
RunTrackStates ==
    {"rt_prepare", "rt_top", "rt_wait", "rt_send", "rt_pause", "rt_pausewait",
     "rt_resume", "rt_end"}

\* C34: in cmd_play, with no recording in the session, the track index
\* starts at 1 and goes up by one, each track's loop runs on the points and
\* the arm of the argument at that index and sends those points; commands are
\* issued only inside a track's loop, and the index goes up only when the
\* arm's log ends with the disengage command of the loop before; and with the
\* stop flag set, a loop in progress is not followed by another: between two
\* tracks the command issues nothing and goes to its end.
C34_TracksInSequence ==
    /\ [][(op = "play" /\ op' = "play" /\ ti' # ti)
          => \/ pc = "play_first" /\ ti' = 1
             \/ /\ pc = "play_delay" /\ ti' = ti + 1
                /\ rec = NoRecording
                     => /\ cmds[arm] # <<>>
                        /\ cmds[arm][Len(cmds[arm])] = Disengage]_vars
    /\ [][(op = "play" /\ pc = "play_loop" /\ pc' = "rt_prepare")
          => /\ data' = Load(tracks[ti]).pts
             /\ arm' = ArmFromName(tracks[ti])]_vars
    /\ [][(op = "play" /\ pc = "rt_send" /\ cmds' # cmds /\ rec = NoRecording)
          => cmds'[arm] = Append(cmds[arm],
                 PoseCmd(EffectiveTarget(Load(tracks[ti]).pts[idx].coordinates),
                         run_time))]_vars
    /\ [][(op = "play" /\ op' = "play" /\ cmds' # cmds /\ rec = NoRecording)
          => pc \in RunTrackStates]_vars
    /\ [][(op = "play" /\ play_stop /\ pc \in RunTrackStates)
          => /\ pc' \in RunTrackStates \cup {"play_after", "idle"}
             /\ pc' = "idle" => result' = "IndexError"
             /\ ti' = ti]_vars
    /\ [][(op = "play" /\ play_stop
           /\ pc \in {"play_after", "play_delay", "play_loop"})
          => pc' \in {pc, "play_end"} /\ (rec = NoRecording => cmds' = cmds)
             /\ ti' = ti]_vars

C34_Witness ==
    /\ op = "play" /\ tracks = <<LA, LA>> /\ pc = "idle" /\ result = "done"
    /\ ti = 2 /\ pwrites = 0
    /\ Len(cmds["left"]) = 12
    /\ cmds["left"][6] = Disengage /\ cmds["left"][7] = EnableCmd
    /\ cmds["left"][9].v = EffectiveTarget(P1)
    /\ cmds["left"][12] = Disengage

\* ================================================ Pause elements of a scene
\* One Pause element of one arm's timeline, in the single-process terminal
\* (cmd_scene_play of terminal_v2.py, line 1742: time.sleep(el.duration)) and
\* in the orchestrator (_scene_play_once of terminal_v3.py, lines 372-394).
\* Time is in milliseconds and passes in slices of at most PauseSleepMs, the
\* poll interval chk of the orchestrator; pause.txt may be rewritten between
\* any two slices.  op is the terminal, data the duration of the element,
\* idx the local slept, step the slice about to be slept, run_time the time
\* since the element began, mark the part of it during which the sentinel
\* was not active.
PauseDurations == {200, 300, 400, 600}

\* the clock of an element stops at this many ms
MaxPauseTime == 1200

ScenePauseInit ==
    /\ op \in {"scene_v2", "scene_v3"}
    /\ data \in PauseDurations
    /\ pause_file \in {"0", "1"} /\ pwrites = 0
    /\ pc = "pause" /\ idx = 0 /\ step = 0 /\ run_time = 0 /\ mark = 0
    /\ tracks = <<>> /\ ti = 0 /\ arm = "left" /\ steps = 0
    /\ paused_by_file = FALSE /\ delay_k = 0 /\ cycle_stop = FALSE
    /\ play_stop = FALSE /\ play_thread = "none" /\ sp = "idle"
    /\ cmds = [a \in Arms |-> <<>>] /\ arm_pose = [a \in Arms |-> ZeroPose]
    /\ zero_tracks = TRUE /\ result = "none" /\ checked = {}
    /\ rec = NoRecording /\ ncmd = 0

\* a slice of t ms passes: the clock, and the time spent with the sentinel
\* not active
TimePasses(t) ==
    /\ run_time + t <= MaxPauseTime
    /\ run_time' = run_time + t
    /\ mark' = IF ExternalPauseActive THEN mark ELSE mark + t

\* terminal_v2.py lines 1741-1743: time.sleep(el.duration or 0), slice by
\* slice; pause.txt is not read
ScenePauseSleepV2 ==
    /\ op = "scene_v2" /\ pc = "pause"
    /\ IF run_time >= data
       THEN pc' = "next" /\ UNCHANGED <<run_time, mark>>
       ELSE /\ TimePasses(IF data - run_time < PauseSleepMs
                          THEN data - run_time ELSE PauseSleepMs)
            /\ UNCHANGED pc
    /\ UNCHANGED <<op, tracks, ti, arm, data, idx, step, steps, paused_by_file,
                   delay_k, cycle_stop, envVars, play_stop, play_thread, cmds,
                   result, checked>>

\* terminal_v3.py lines 388-392: the test of the loop, the read of pause.txt,
\* and the choice of the slice; stop_flag is never set
ScenePauseCheckV3 ==
    /\ op = "scene_v3" /\ pc = "pause"
    /\ IF idx >= data
       THEN pc' = "next" /\ UNCHANGED step
       ELSE IF ExternalPauseActive
       THEN pc' = "sleep_paused" /\ step' = PauseSleepMs
       ELSE /\ pc' = "sleep_counted"
            /\ step' = IF data - idx < PauseSleepMs THEN data - idx
                       ELSE PauseSleepMs
    /\ UNCHANGED <<op, tracks, ti, arm, data, idx, steps, paused_by_file,
                   delay_k, mark, cycle_stop, envVars, play_stop, play_thread,
                   run_time, cmds, result, checked>>

\* terminal_v3.py lines 390-391 and 393-394: the sleep; only a slice chosen
\* with the sentinel not active is added to slept
ScenePauseSleepV3 ==
    /\ op = "scene_v3" /\ pc \in {"sleep_paused", "sleep_counted"}
    /\ TimePasses(step)
    /\ idx' = IF pc = "sleep_counted" THEN idx + step ELSE idx
    /\ pc' = "pause"
    /\ UNCHANGED <<op, tracks, ti, arm, data, step, steps, paused_by_file,
                   delay_k, cycle_stop, envVars, play_stop, play_thread, cmds,
                   result, checked>>

ScenePauseSpec ==
    ScenePauseInit /\ [][ScenePauseSleepV2 \/ ScenePauseCheckV3
                         \/ ScenePauseSleepV3
                         \/ \E v \in {"0", "1"} : WritePause(v)]_vars

\* C35: when a Pause element of a scene is over and the arm goes on to its
\* next element, the time that has passed with the pause sentinel not active
\* since the element began is at least the duration of the element.
C35_ScenePauseHonoursSentinel ==
    pc = "next" => mark >= data

\* ================================================= names in the orchestrator
\* _canon_name of terminal_v3.py on names written as token sequences: a
\* prefix that ends with an underscore, such as "left_", is a prefix of the
\* string exactly when its tokens are a prefix of the name's tokens.
MaxNameLen == 4

NameTokens == {"l", "left", "r", "right", "scene", "_", "a"}

\* the token sequences that are names: no two letter runs side by side
CanonNames ==
    {n \in UNION {[1..k -> NameTokens] : k \in 1..MaxNameLen} :
        \A i \in 1..(Len(n) - 1) : n[i] = "_" \/ n[i + 1] = "_"}

ScenePrefix == <<"scene", "_", "_">>

\* _canon_name, lines 462-475; name[2:] and name[5:] drop the letter run
\* and one underscore
CanonName(name) ==
    IF StartsWith(name, <<"l", "_">>)
    THEN LeftPrefix \o SubSeq(name, 3, Len(name))
    ELSE IF StartsWith(name, <<"left", "_">>)
    THEN LeftPrefix \o SubSeq(name, 3, Len(name))
    ELSE IF StartsWith(name, <<"r", "_">>)
    THEN RightPrefix \o SubSeq(name, 3, Len(name))
    ELSE IF StartsWith(name, <<"right", "_">>) /\ ~StartsWith(name, RightPrefix)
    THEN RightPrefix \o SubSeq(name, 3, Len(name))
    ELSE IF StartsWith(name, <<"scene", "_">>) /\ ~StartsWith(name, ScenePrefix)
    THEN ScenePrefix \o SubSeq(name, 3, Len(name))
    ELSE name

\* the name the orchestrator was given; nothing canonicalised yet
CanonInit ==
    /\ op = "none" /\ tracks \in CanonNames
    /\ result = [once |-> <<>>, twice |-> <<>>]
    /\ mark = 0 /\ cmds = <<>> /\ checked = <<>> /\ data = <<>>
    /\ pc = "idle" /\ ti = 0 /\ arm = "left" /\ idx = 0
    /\ step = 0 /\ steps = 0 /\ paused_by_file = FALSE /\ delay_k = 0
    /\ play_stop = TRUE /\ play_thread = "none" /\ sp = "idle"
    /\ pause_file = "0" /\ pwrites = 0 /\ run_time = 0
    /\ arm_pose = [a \in Arms |-> ZeroPose] /\ zero_tracks = FALSE
    /\ cycle_stop = FALSE /\ rec = NoRecording /\ ncmd = 0

\* cmd_play, line 147, and _proxy_for_track, line 47: the name that is
\* routed and handed to the arm's terminal; and the same applied again
CanonApply ==
    /\ op = "none"
    /\ result' = [once |-> CanonName(tracks),
                  twice |-> CanonName(CanonName(tracks))]
    /\ op' = "canon"
    /\ UNCHANGED <<data, mark, cmds, checked, poseFrame>>

CanonSpec == CanonInit /\ [][CanonApply]_vars

\* C36: _canon_name returns a name that starts with left__, right__ or
\* scene__ as it is, and applying it to its own result changes nothing.
C36_CanonIdempotent ==
    op = "canon"
    => /\ (StartsWith(tracks, LeftPrefix) \/ StartsWith(tracks, RightPrefix)
           \/ StartsWith(tracks, ScenePrefix))
          => result.once = tracks
       /\ result.twice = result.once

\* ------------------------------------------------ the end of a play command
\* is_playing(), lines 1202-1204: a play thread is recorded and it is alive.
\* The REPL runs the command in its own thread, which outlives the command.
IsPlaying == play_thread # "none"

\* C37: whenever cmd_play or cmd_play_v2 has ended, by normal completion, by
\* an early return or by raising, the stop flag is set, the recorded play
\* thread is cleared and is_playing() is false.
C37_EndsNotPlaying ==
    (op \in {"play", "play_v2"} /\ pc = "idle")
        => (play_stop /\ play_thread = "none" /\ ~IsPlaying)

\* C38: stop_play called from another thread than the playing one never
\* fails, and it returns only when the playback is no longer issuing
\* commands, whatever the playing thread does in between.
C38_StopPlayNeverFails ==
    /\ [](sp # "AttributeError")
    /\ [][(sp # "done" /\ sp' = "done" /\ op \in {"play", "play_v2"})
              => pc = "idle"]_vars

\* ------------------------------------------- the REPL of the orchestrator
\* PiperTerminalV3.repl with one terminal (terminal_v2) per arm behind a
\* proxy. rec[a] is the discrete recording of arm a, checked the set of track
\* files on disk, tracks the line entered.
MaxOrchLines == 5

OrchIdle == [hybrid |-> FALSE, hname |-> <<>>, npts |-> 0]

\* _proxy_for_track, lines 46-56
ProxyForTrack(name) ==
    LET c == CanonName(name)
    IN  IF Len(c) >= 3 /\ SubSeq(c, 1, 3) = LeftPrefix THEN "left"
        ELSE IF Len(c) >= 3 /\ SubSeq(c, 1, 3) = RightPrefix THEN "right"
        ELSE "ValueError"

\* _active_hybrid_proxy, lines 672-682: the one proxy that is recording
ActiveHybridProxy ==
    IF Cardinality({a \in Arms : rec[a].hybrid}) = 1
    THEN {a \in Arms : rec[a].hybrid}
    ELSE {}

orchFrame == <<pc, ti, arm, data, idx, step, steps, paused_by_file, delay_k,
               play_stop, play_thread, sp, pause_file, pwrites, run_time,
               cmds, arm_pose, zero_tracks, mark, cycle_stop>>

OrchInit ==
    /\ pc = "idle" /\ op = "none" /\ tracks = <<>> /\ data = <<>>
    /\ checked = {} /\ mark = 0 /\ result = "none" /\ run_time = 0
    /\ rec = [a \in Arms |-> OrchIdle] /\ ncmd = 0 /\ arm = "none"
    /\ arm_pose = [a \in Arms |-> P1]
    /\ ti = 0 /\ idx = 0 /\ step = 0 /\ steps = 0
    /\ paused_by_file = FALSE /\ delay_k = 0 /\ play_stop = TRUE
    /\ play_thread = "none" /\ sp = "idle" /\ pause_file = "0" /\ pwrites = 0
    /\ cmds = [a \in Arms |-> <<>>] /\ zero_tracks = TRUE
    /\ cycle_stop = FALSE

\* the line "r2 <name>": _handle_hybrid_input does not take a line of two
\* words other than "default <sec>", so cmd_record_v2 runs (terminal_v3
\* lines 81-126), and then cmd_record_v2 of the arm's terminal (terminal_v2
\* lines 1307-1354)
OrchRecordV2(name) ==
    /\ ncmd < MaxOrchLines
    /\ ncmd' = ncmd + 1
    /\ op' = "r2" /\ tracks' = <<"r2", name>>
    /\ \E ans \in (IF name \in checked THEN {"y", "n"} ELSE {"none"}) :
         IF ans = "n"
         THEN result' = "declined" /\ UNCHANGED <<rec, checked>>
         ELSE /\ checked' = checked \ {name}
              /\ IF ProxyForTrack(name) = "ValueError"
                 THEN result' = "ValueError" /\ UNCHANGED rec
                 ELSE IF rec[ProxyForTrack(name)].hybrid
                 THEN result' = "busy" /\ UNCHANGED rec
                 ELSE /\ rec' = [rec EXCEPT ![ProxyForTrack(name)] =
                                   [hybrid |-> TRUE, hname |-> name, npts |-> 0]]
                      /\ result' = "started"
    /\ UNCHANGED orchFrame

\* the line "s" or "stop": lines 696-699 when one arm is recording; otherwise
\* the line is dispatched: cmd_s (lines 130-139) calls cmd_s of both
\* terminals, which stops a dense recording thread only (terminal_v2 lines
\* 1398-1405); no terminal has a cmd_stop, so __getattr__ (lines 434-446)
\* raises AttributeError
OrchStopLine(word) ==
    /\ ncmd < MaxOrchLines
    /\ ncmd' = ncmd + 1
    /\ op' = "stop_line" /\ tracks' = <<word>>
    /\ IF ActiveHybridProxy # {}
       THEN \E a \in ActiveHybridProxy :
              /\ rec' = [rec EXCEPT ![a] = OrchIdle]
              /\ checked' = checked \cup {rec[a].hname}
              /\ result' = "stopped"
       ELSE /\ result' = IF word = "s" THEN "nothing_recorded" ELSE "unknown"
            /\ UNCHANGED <<rec, checked>>
    /\ UNCHANGED orchFrame

\* the empty line or a line of one number: lines 712-725 when one arm is
\* recording; otherwise the empty line is skipped and the number is an
\* unknown command
OrchPointLine(word) ==
    /\ ncmd < MaxOrchLines
    /\ ncmd' = ncmd + 1
    /\ op' = "point_line" /\ tracks' = word
    /\ IF ActiveHybridProxy # {}
       THEN \E a \in ActiveHybridProxy :
              /\ rec' = [rec EXCEPT ![a].npts = @ + 1]
              /\ result' = "added"
       ELSE /\ result' = IF word = <<>> THEN "skipped" ELSE "unknown"
            /\ UNCHANGED rec
    /\ UNCHANGED <<checked, orchFrame>>

OrchSpec ==
    OrchInit /\ [][\/ \E name \in RecordArgs : OrchRecordV2(name)
                   \/ \E word \in {"s", "stop"} : OrchStopLine(word)
                   \/ \E word \in {<<>>, <<"1.5">>} : OrchPointLine(word)]_vars

\* C39: whenever a discrete recording is active on at least one arm, the
\* line "s" or "stop" stops an active discrete recording and its track is on
\* disk afterwards, also when both arms are recording.
C39_StopLineStopsRecording ==
    [][(op' = "stop_line" /\ ncmd' # ncmd /\ \E a \in Arms : rec[a].hybrid)
         => \E a \in Arms : /\ rec[a].hybrid /\ ~rec'[a].hybrid
                            /\ rec[a].hname \in checked']_vars

\* ------------------------------------------ two threads on one ArmProxy
\* Two threads of the parent process call methods of the same proxy. pc, step,
\* mark, ncmd and result are per thread: the position in _send_call, the
\* value of self._req_id loaded by "+= 1", curr_id, the number of calls made
\* and the outcome of the last call. idx is self._req_id, data and tracks the
\* two directions of the pipe, cycle_stop the ids sent so far.
Threads == {1, 2}
MaxThreadCalls == 2

ThreadMethod(t) == IF t = 1 THEN "cmd_get" ELSE "cmd_play"

threadFrame == <<op, ti, paused_by_file, delay_k, play_stop, play_thread,
                 pause_file, pwrites, run_time, cmds, arm_pose, zero_tracks,
                 rec>>

ThreadsInit ==
    /\ pc = [t \in Threads |-> "idle"] /\ sp = "recv" /\ arm = "ok"
    /\ data = <<>> /\ tracks = <<>> /\ idx = 0
    /\ mark = [t \in Threads |-> 0] /\ step = [t \in Threads |-> 0]
    /\ ncmd = [t \in Threads |-> 0]
    /\ result = [t \in Threads |-> [id |-> 0, kind |-> "none", value |-> <<>>]]
    /\ checked = <<>> /\ steps = <<>> /\ cycle_stop = <<>>
    /\ op = "ipc" /\ ti = 0 /\ paused_by_file = FALSE
    /\ delay_k = 0 /\ play_stop = TRUE /\ play_thread = "none"
    /\ pause_file = "0" /\ pwrites = 0 /\ run_time = 0
    /\ cmds = [a \in Arms |-> <<>>] /\ arm_pose = [a \in Arms |-> P1]
    /\ zero_tracks = TRUE /\ rec = NoRecording

\* line 163, self._req_id += 1: the attribute is loaded
ThreadLoadReqId(t) ==
    /\ pc[t] = "idle" /\ ncmd[t] < MaxThreadCalls
    /\ ncmd' = [ncmd EXCEPT ![t] = @ + 1]
    /\ step' = [step EXCEPT ![t] = idx]
    /\ pc' = [pc EXCEPT ![t] = "loaded"]
    /\ UNCHANGED <<sp, arm, data, tracks, idx, mark, result, checked, steps,
                   cycle_stop, threadFrame>>

\* line 163: the sum is stored
ThreadStoreReqId(t) ==
    /\ pc[t] = "loaded"
    /\ idx' = step[t] + 1
    /\ pc' = [pc EXCEPT ![t] = "stored"]
    /\ UNCHANGED <<sp, arm, data, tracks, mark, step, ncmd, result, checked,
                   steps, cycle_stop, threadFrame>>

\* line 164: curr_id = self._req_id
ThreadReadCurrId(t) ==
    /\ pc[t] = "stored"
    /\ mark' = [mark EXCEPT ![t] = idx]
    /\ pc' = [pc EXCEPT ![t] = "send"]
    /\ UNCHANGED <<sp, arm, data, tracks, idx, step, ncmd, result, checked,
                   steps, cycle_stop, threadFrame>>

\* lines 165-171: the call message is written to the pipe
ThreadSend(t) ==
    /\ pc[t] = "send"
    /\ data' = Append(data, [cmd |-> "call", method |-> ThreadMethod(t),
                             id |-> mark[t]])
    /\ cycle_stop' = Append(cycle_stop, mark[t])
    /\ pc' = [pc EXCEPT ![t] = "recv"]
    /\ UNCHANGED <<sp, arm, tracks, idx, mark, step, ncmd, result, checked,
                   steps, threadFrame>>

\* lines 172-177: the next reply of the pipe goes to the thread that is in
\* recv, whichever call it answers
ThreadRecv(t) ==
    /\ pc[t] = "recv" /\ tracks # <<>>
    /\ tracks' = Tail(tracks)
    /\ result' = [result EXCEPT ![t] = CallResult(Head(tracks), mark[t])]
    /\ checked' = Append(checked, [thread |-> t, reply |-> Head(tracks)])
    /\ pc' = [pc EXCEPT ![t] = "idle"]
    /\ UNCHANGED <<sp, arm, data, idx, mark, step, ncmd, steps, cycle_stop,
                   threadFrame>>

\* run, lines 88-122: the worker serves one call message
ThreadsWorkerServe ==
    /\ sp = "recv" /\ data # <<>>
    /\ data' = Tail(data)
    /\ \E outcome \in {"returns", "raises"} :
         /\ tracks' = Append(tracks, WorkerReply(arm, Head(data), outcome))
         /\ steps' = Append(steps, [id |-> Head(data).id,
                                    raised |-> outcome = "raises"])
    /\ UNCHANGED <<pc, sp, arm, idx, mark, step, ncmd, result, checked,
                   cycle_stop, threadFrame>>

ThreadsSpec ==
    ThreadsInit /\ [][\/ \E t \in Threads :
                          \/ ThreadLoadReqId(t) \/ ThreadStoreReqId(t)
                          \/ ThreadReadCurrId(t) \/ ThreadSend(t)
                          \/ ThreadRecv(t)
                      \/ ThreadsWorkerServe]_vars

\* C40: with two threads calling methods of the same proxy, the calls are
\* sent with pairwise distinct ids, no call ends with the out-of-order
\* error, and the result or the worker error a caller gets is the one of its
\* own call.
C40_EachCallerOwnReply ==
    /\ \A i, j \in DOMAIN cycle_stop : i # j => cycle_stop[i] # cycle_stop[j]
    /\ \A t \in Threads :
         /\ result[t].kind # "out_of_order"
         /\ result[t].kind = "returned"
              => result[t].value = <<ThreadMethod(t), result[t].id>>
         /\ result[t].kind = "worker_error"
              => result[t].value = <<"Exception", ThreadMethod(t)>>

====
